---- MODULE Spec2Model ----
(***************************************************************************)
(* Model of the practice-session save path of exammaster (app.go,          *)
(* database.go): SavePracticeSession, the adaptive difficulty adjustment   *)
(* updateQuestionDifficulties, AddWrongQuestionsFromSession and the        *)
(* store operations they call.                                             *)
(*                                                                         *)
(* Go values that reach the backend were decoded from JSON, so a value is  *)
(* modelled by its JSON shape: a record with a kind and, per kind, the     *)
(* fields the code inspects with type assertions.                          *)
(***************************************************************************)
EXTENDS Integers, Sequences, FiniteSets, TLC

----------------------------------------------------------------------------
(* Bounds of the model                                                     *)

MaxTotal == 5       \* largest totalQuestions / correctCount submitted

MaxEntries == 2     \* longest per-question list submitted

DiffSlack == 1      \* stored difficulties range over 1-DiffSlack .. 5+DiffSlack

----------------------------------------------------------------------------
(* Values                                                                  *)

Procs == {1, 2}

\* A *int is nil or points at an integer.
Nil == <<>>

Some(d) == <<d>>

StoredIds == {"q1", "q2"}

GhostId == "q0"

QuestionIds == StoredIds \cup {GhostId}

SessionIds == {"s1"}

\* models.go: Difficulty *int, persisted in an INTEGER column without any
\* range constraint; CreateQuestion/UpdateQuestion store what they are given.
StoredDiffs == {Nil} \cup { Some(d) : d \in (1 - DiffSlack) .. (5 + DiffSlack) }

\* Elements of sessionData["questions"] as the code distinguishes them.
\* a stored question answered either way, or an id without a row
ValidEntries ==
    [kind : {"object"}, idType : {"string"}, questionId : StoredIds,
     boolType : {"bool"}, isCorrect : BOOLEAN]
    \cup [kind : {"object"}, idType : {"string"}, questionId : {GhostId},
          boolType : {"bool"}, isCorrect : {FALSE}]

MalformedEntries ==
    { [kind |-> "object", idType |-> "other", questionId |-> "",
       boolType |-> "bool", isCorrect |-> TRUE],
      [kind |-> "object", idType |-> "string", questionId |-> "q1",
       boolType |-> "other", isCorrect |-> FALSE],
      [kind |-> "null", idType |-> "other", questionId |-> "",
       boolType |-> "other", isCorrect |-> FALSE],
      [kind |-> "number", idType |-> "other", questionId |-> "",
       boolType |-> "other", isCorrect |-> FALSE] }

\* Stores a call may start from: the first question holds any difficulty,
\* the second was never scored or sits at the medium default.
InitialStores ==
    { f \in [StoredIds -> StoredDiffs] : f["q2"] \in {Nil, Some(3)} }

Entries == ValidEntries \cup MalformedEntries

SeqsUpTo(S, n) == UNION { [1..k -> S] : k \in 0..n }

\* sessionData["questions"]: key absent, JSON null, a JSON array, or any
\* other JSON value (string, number, object).
Payloads ==
    { [kind |-> k, items |-> <<>>] : k \in {"absent", "null", "other"} }
    \cup { [kind |-> "list", items |-> s] : s \in SeqsUpTo(Entries, MaxEntries) }

\* Lists of at most one element, next to the payloads that are not lists.
ShortPayloads == { v \in Payloads : Len(v.items) <= 1 }

\* Sessions that exercise the accuracy rules: every count up to MaxTotal
\* with correctCount <= totalQuestions, over a short payload.
RuleSessionDatas ==
    { sd \in [hdr : {"ok"}, id : SessionIds, totalQuestions : 0..MaxTotal,
              correctCount : 0..MaxTotal, questions : ShortPayloads] :
         sd.correctCount <= sd.totalQuestions }

\* Sessions that exercise the handler: every payload, submitted as an empty
\* session (with a stray count) or as a one-question session answered
\* wrongly or correctly.
WholeSessionDatas ==
    { sd \in [hdr : {"ok"}, id : SessionIds, totalQuestions : 0..1,
              correctCount : 0..1, questions : Payloads] :
         sd.totalQuestions = 0 => sd.correctCount = 1 }

\* Calls stopped before the adjustment pass: a failed type assertion on a
\* required field, an unparseable start or end time.
RejectedSessionDatas ==
    [hdr : {"badField", "badStart", "badEnd"}, id : SessionIds,
     totalQuestions : {1}, correctCount : {1},
     questions : {[kind |-> "list", items |-> <<>>]}]

SessionDatas == RuleSessionDatas \cup WholeSessionDatas \cup RejectedSessionDatas

NoSession == [id |-> "", TotalQuestions |-> 0, CorrectCount |-> 0,
              Details |-> [kind |-> "absent", items |-> <<>>]]

NoData == [hdr |-> "none", id |-> "", totalQuestions |-> 0,
           correctCount |-> 0, questions |-> [kind |-> "absent", items |-> <<>>]]

----------------------------------------------------------------------------
VARIABLES
    dbQuestions,            \* table questions: id -> difficulty (Nil = NULL)
    dbSessions,             \* table practice_sessions: set of ids
    dbWrong,                \* table wrong_questions: question_id -> record
    pc,                     \* position of each SavePracticeSession call
    calls,                  \* calls each caller may still make
    sessionData,            \* argument of the call
    session,                \* the PracticeSession built from it
    questions,              \* decoded session.Details
    idx,                    \* position of the range loop (1-based)
    difficultyAdjustment,   \* session-level adjustment
    currentQuestion,        \* Difficulty of the row read for this entry
    individualAdjustment,   \* adjustment of the entry being processed
    result,                 \* what the call returned
    log,                    \* log.Printf lines of the call
    ops,                    \* store operations of the call, in order
    before,                 \* dbQuestions when the call started
    dbRows,                 \* table questions: id -> the other columns
    hasIndex,               \* table questions has the column [index]
    dbRelations,            \* table question_group_relations
    now,                    \* latest reading of the clock (seconds)
    made,                   \* ids generated so far
    ret,                    \* what the latest store operation returned
    prior,                  \* the questions table before that operation
    budget,                 \* store operations still to be called
    past                    \* the finished calls of each caller, in order

vars == <<dbQuestions, dbSessions, dbWrong, pc, calls, sessionData, session,
          questions, idx, difficultyAdjustment, currentQuestion,
          individualAdjustment, result, log, ops, before,
          dbRows, hasIndex, dbRelations, now, made, ret, prior, budget, past>>

catalogVars == <<dbRows, hasIndex, dbRelations, now, made, ret, prior, budget>>

dbVars == <<dbQuestions, dbSessions, dbWrong>>

localVars == <<questions, idx, difficultyAdjustment, currentQuestion,
               individualAdjustment>>

----------------------------------------------------------------------------
(* Pure parts of SavePracticeSession and updateQuestionDifficulties        *)

\* json.Marshal(sessionData["questions"]): a missing key leaves Details
\* nil; every JSON-decoded value marshals, a nil interface to null.
Marshal(v) == [kind |-> v.kind, items |-> v.items]

\* variant: array elements of the wrong type are let through
Unmarshal_Lenient(d) ==
    IF d.kind = "null" THEN [err |-> FALSE, value |-> <<>>]
    ELSE IF d.kind = "list" THEN [err |-> FALSE, value |-> d.items]
    ELSE [err |-> TRUE, value |-> <<>>]

\* json.Unmarshal(session.Details, &questions) with
\* questions []map[string]interface{}: empty input and non-array values
\* are errors, null decodes to a nil slice, an array element must be an
\* object or null (null leaves a nil map).
Unmarshal(d) ==
    IF d.kind = "null" THEN [err |-> FALSE, value |-> <<>>]
    ELSE IF d.kind = "list"
              /\ \A k \in 1..Len(d.items) : d.items[k].kind \in {"object", "null"}
         THEN [err |-> FALSE, value |-> d.items]
    ELSE [err |-> TRUE, value |-> <<>>]

\* q["questionId"].(string) and q["isCorrect"].(bool) succeed
HasQuestionId(q) == q.kind = "object" /\ q.idType = "string"

HasIsCorrect(q) == q.kind = "object" /\ q.boolType = "bool"

\* accuracyRate := float64(CorrectCount) / float64(TotalQuestions) * 100,
\* kept as the exact fraction num/den.  The two float64 roundings do not
\* move the value across 20, 40, 60 or 80: the quotients 1/5 .. 4/5 times
\* 100 round to exactly 20 .. 80, and any other quotient is at least
\* 20/den away from a threshold.  den = 0 is the float64 result of a
\* division by zero: NaN for 0/0, +Inf otherwise.
AccuracyRate(s) == [num |-> s.CorrectCount * 100, den |-> s.TotalQuestions]

RateGT(r, k) == IF r.den = 0 THEN r.num > 0 ELSE r.num > k * r.den

RateGE(r, k) == IF r.den = 0 THEN r.num > 0 ELSE r.num >= k * r.den

RateLE(r, k) == IF r.den = 0 THEN FALSE ELSE r.num <= k * r.den

\* variant: the zero-question guard is missing
NothingToAdjust_Never(s) == FALSE

\* if session.TotalQuestions == 0 { return nil }
NothingToAdjust(s) == s.TotalQuestions = 0

\* variant: the first case reads >= 80
AdjustmentForAccuracy_Inclusive80(r) ==
    IF RateGE(r, 80) THEN 1
    ELSE IF RateGE(r, 60) THEN 0
    ELSE IF RateGE(r, 40) THEN -1
    ELSE IF RateGE(r, 20) THEN -2
    ELSE -3

\* the switch on accuracyRate: cases are tried top-down
AdjustmentForAccuracy(r) ==
    IF RateGT(r, 80) THEN 1
    ELSE IF RateGE(r, 60) THEN 0
    ELSE IF RateGE(r, 40) THEN -1
    ELSE IF RateGE(r, 20) THEN -2
    ELSE -3

\* variant: no override for a correct answer in a poor session
IndividualAdjustmentFor_NoCorrectOverride(base, isCorrect, r) ==
    IF ~isCorrect /\ RateGE(r, 80) THEN -1 ELSE base

\* variant: the override for an incorrect answer needs accuracy > 80
IndividualAdjustmentFor_Strict80(base, isCorrect, r) ==
    IF isCorrect /\ RateLE(r, 60) THEN 0
    ELSE IF ~isCorrect /\ RateGT(r, 80) THEN -1
    ELSE base

\* variant: the override for an incorrect answer starts at accuracy 60
IndividualAdjustmentFor_WrongFrom60(base, isCorrect, r) ==
    IF isCorrect /\ RateLE(r, 60) THEN 0
    ELSE IF ~isCorrect /\ RateGE(r, 60) THEN -1
    ELSE base

\* variant: no override for an incorrect answer in a strong session
IndividualAdjustmentFor_NoWrongOverride(base, isCorrect, r) ==
    IF isCorrect /\ RateLE(r, 60) THEN 0 ELSE base

\* individualAdjustment := difficultyAdjustment, then the if / else-if
IndividualAdjustmentFor(base, isCorrect, r) ==
    IF isCorrect /\ RateLE(r, 60) THEN 0
    ELSE IF ~isCorrect /\ RateGE(r, 80) THEN -1
    ELSE base

\* variant: the upper clamp is missing
AdjustedDifficulty_NoUpperClamp(d, a) ==
    LET adjusted == d + a
    IN  IF adjusted < 1 THEN 1 ELSE adjusted

\* variant: the upper bound of the clamp is 4
AdjustedDifficulty_CapFour(d, a) ==
    LET adjusted == d + a
    IN  IF adjusted < 1 THEN 1 ELSE IF adjusted > 4 THEN 4 ELSE adjusted

\* adjustedDifficulty := *newDifficulty + individualAdjustment, clamped
AdjustedDifficulty(d, a) ==
    LET adjusted == d + a
    IN  IF adjusted < 1 THEN 1 ELSE IF adjusted > 5 THEN 5 ELSE adjusted

\* variant: a never-scored question starts from 1
BaseDifficulty_FromOne(a) ==
    LET base == 1 + a
    IN  IF base < 1 THEN 1 ELSE IF base > 5 THEN 5 ELSE base

\* baseDifficulty := 3 + individualAdjustment, clamped
BaseDifficulty(a) ==
    LET base == 3 + a
    IN  IF base < 1 THEN 1 ELSE IF base > 5 THEN 5 ELSE base

\* variant: a question without a difficulty is left without one
NewDifficulty_KeepAbsent(cur, a) ==
    IF cur # Nil THEN Some(AdjustedDifficulty(cur[1], a))
    ELSE Nil

\* newDifficulty: the pointer handed to UpdateQuestionDifficulty
NewDifficulty(cur, a) ==
    IF cur # Nil THEN Some(AdjustedDifficulty(cur[1], a))
    ELSE Some(BaseDifficulty(a))

----------------------------------------------------------------------------
(* Store operations and log lines recorded per call                        *)

ReadOp(q, ok, v) == [op |-> "read", q |-> q, ok |-> ok, val |-> v]

\* a write carries what the adjustment was computed from: the difficulty
\* read, the entry's isCorrect and its individual adjustment
WriteOp(q, ok, v, old, isCorrect, adj) ==
    [op |-> "write", q |-> q, ok |-> ok, val |-> v, old |-> old,
     isCorrect |-> isCorrect, adj |-> adj]

PersistOp(id, ok) == [op |-> "persist", q |-> id, ok |-> ok, val |-> Nil]

Entry(p) == questions[p][idx[p]]

----------------------------------------------------------------------------
\* a row as the schema's defaults and an application that never set
\* [index] leave it
PlainRow(t) == [question |-> "Q", options |-> "[]", index |-> Nil, created_at |-> t]

NoRet == [op |-> "none"]

Snapshot(diffs, rows, col, rel) ==
    [diffs |-> diffs, rows |-> rows, hasIndex |-> col, rel |-> rel]

\* the migrated store on which no operation but SavePracticeSession is
\* called
CatalogIdle ==
    /\ dbRows = [q \in StoredIds |-> PlainRow(0)]
    /\ hasIndex = TRUE
    /\ dbRelations = {}
    /\ now = 0
    /\ made = 0
    /\ ret = NoRet
    /\ prior = Snapshot(dbQuestions, dbRows, hasIndex, dbRelations)
    /\ budget = 0
    /\ past = [p \in Procs |-> <<>>]

Init ==
    /\ dbQuestions \in InitialStores
    /\ dbSessions = {}
    /\ dbWrong = [q \in {} |-> 0]
    /\ pc = [p \in Procs |-> "idle"]
    /\ calls = [p \in Procs |-> IF p = 1 THEN 1 ELSE 0]
    /\ sessionData = [p \in Procs |-> NoData]
    /\ session = [p \in Procs |-> NoSession]
    /\ questions = [p \in Procs |-> <<>>]
    /\ idx = [p \in Procs |-> 0]
    /\ difficultyAdjustment = [p \in Procs |-> 0]
    /\ currentQuestion = [p \in Procs |-> Nil]
    /\ individualAdjustment = [p \in Procs |-> 0]
    /\ result = [p \in Procs |-> "none"]
    /\ log = [p \in Procs |-> <<>>]
    /\ ops = [p \in Procs |-> <<>>]
    /\ before = [p \in Procs |-> dbQuestions]
    /\ CatalogIdle

----------------------------------------------------------------------------
(* SavePracticeSession, up to the call of updateQuestionDifficulties       *)

\* what is kept of a call once the caller makes the next one
FinishedCall(p) ==
    [sessionData |-> sessionData[p], session |-> session[p],
     result |-> result[p], ops |-> ops[p], before |-> before[p]]

\* A failed type assertion on a required field panics; an unparseable
\* start or end time returns an error.  Otherwise the PracticeSession is
\* built and Details holds the marshalled questions.
SavePracticeSession(p, sd) ==
    /\ pc[p] \in {"idle", "done"}
    /\ calls[p] > 0
    /\ calls' = [calls EXCEPT ![p] = @ - 1]
    /\ sessionData' = [sessionData EXCEPT ![p] = sd]
    /\ log' = [log EXCEPT ![p] = <<>>]
    /\ ops' = [ops EXCEPT ![p] = <<>>]
    /\ before' = [before EXCEPT ![p] = dbQuestions]
    /\ past' = [past EXCEPT ![p] =
                  IF pc[p] = "done" THEN Append(@, FinishedCall(p)) ELSE @]
    /\ questions' = [questions EXCEPT ![p] = <<>>]
    /\ idx' = [idx EXCEPT ![p] = 0]
    /\ difficultyAdjustment' = [difficultyAdjustment EXCEPT ![p] = 0]
    /\ currentQuestion' = [currentQuestion EXCEPT ![p] = Nil]
    /\ individualAdjustment' = [individualAdjustment EXCEPT ![p] = 0]
    /\ IF sd.hdr = "ok"
       THEN /\ session' = [session EXCEPT ![p] =
                              [id |-> sd.id,
                               TotalQuestions |-> sd.totalQuestions,
                               CorrectCount |-> sd.correctCount,
                               Details |-> Marshal(sd.questions)]]
            /\ result' = [result EXCEPT ![p] = "none"]
            /\ pc' = [pc EXCEPT ![p] = "update"]
       ELSE /\ session' = [session EXCEPT ![p] = NoSession]
            /\ result' = [result EXCEPT ![p] =
                             IF sd.hdr = "badField" THEN "panic" ELSE "error"]
            /\ pc' = [pc EXCEPT ![p] = "done"]
    /\ UNCHANGED <<dbVars, catalogVars>>

----------------------------------------------------------------------------
(* updateQuestionDifficulties                                              *)

\* TotalQuestions == 0: return nil before anything else
UpdateNothing(p) ==
    /\ pc[p] = "update"
    /\ NothingToAdjust(session[p])
    /\ pc' = [pc EXCEPT ![p] = "wrong"]
    /\ UNCHANGED <<catalogVars, past, dbVars, calls, sessionData, session, localVars, result,
                   log, ops, before>>

\* Details do not decode: the error is returned, the caller logs a warning
UpdateParseError(p) ==
    /\ pc[p] = "update"
    /\ ~NothingToAdjust(session[p])
    /\ Unmarshal(session[p].Details).err
    /\ log' = [log EXCEPT ![p] = Append(@, "warnDifficulties")]
    /\ pc' = [pc EXCEPT ![p] = "wrong"]
    /\ UNCHANGED <<catalogVars, past, dbVars, calls, sessionData, session, localVars, result,
                   ops, before>>

\* accuracy rate, session-level adjustment, its log line; enter the loop
UpdateBegin(p) ==
    /\ pc[p] = "update"
    /\ ~NothingToAdjust(session[p])
    /\ ~Unmarshal(session[p].Details).err
    /\ questions' = [questions EXCEPT ![p] = Unmarshal(session[p].Details).value]
    /\ difficultyAdjustment' = [difficultyAdjustment EXCEPT ![p] =
                                   AdjustmentForAccuracy(AccuracyRate(session[p]))]
    /\ idx' = [idx EXCEPT ![p] = 1]
    /\ log' = [log EXCEPT ![p] = Append(@, "accuracy")]
    /\ pc' = [pc EXCEPT ![p] = "loop"]
    /\ UNCHANGED <<catalogVars, past, dbVars, calls, sessionData, session, currentQuestion,
                   individualAdjustment, result, ops, before>>

\* variant: a malformed entry ends the loop (break instead of continue)
LoopSkip_Break(p) ==
    /\ pc[p] = "loop"
    /\ idx[p] <= Len(questions[p])
    /\ ~(HasQuestionId(Entry(p)) /\ HasIsCorrect(Entry(p)))
    /\ idx' = [idx EXCEPT ![p] = Len(questions[p]) + 1]
    /\ UNCHANGED <<catalogVars, past, dbVars, pc, calls, sessionData, session, questions,
                   difficultyAdjustment, currentQuestion, individualAdjustment,
                   result, log, ops, before>>

\* entry without a string questionId or a boolean isCorrect: continue
LoopSkip(p) ==
    /\ pc[p] = "loop"
    /\ idx[p] <= Len(questions[p])
    /\ ~(HasQuestionId(Entry(p)) /\ HasIsCorrect(Entry(p)))
    /\ idx' = [idx EXCEPT ![p] = @ + 1]
    /\ UNCHANGED <<catalogVars, past, dbVars, pc, calls, sessionData, session, questions,
                   difficultyAdjustment, currentQuestion, individualAdjustment,
                   result, log, ops, before>>

\* variant: a failed read is tried again (the index is not advanced)
LoopReadFail_Retry(p) ==
    /\ pc[p] = "loop"
    /\ idx[p] <= Len(questions[p])
    /\ HasQuestionId(Entry(p)) /\ HasIsCorrect(Entry(p))
    /\ Len(ops[p]) < 2 * MaxEntries + 2
    /\ ops' = [ops EXCEPT ![p] = Append(@, ReadOp(Entry(p).questionId, FALSE, Nil))]
    /\ log' = [log EXCEPT ![p] = Append(@, "warnGet")]
    /\ UNCHANGED <<catalogVars, past, dbVars, pc, calls, sessionData, session, questions, idx,
                   difficultyAdjustment, currentQuestion, individualAdjustment,
                   result, before>>

\* variant: a failed read ends the pass (return instead of continue)
LoopReadFail_Abort(p) ==
    /\ pc[p] = "loop"
    /\ idx[p] <= Len(questions[p])
    /\ HasQuestionId(Entry(p)) /\ HasIsCorrect(Entry(p))
    /\ ops' = [ops EXCEPT ![p] = Append(@, ReadOp(Entry(p).questionId, FALSE, Nil))]
    /\ log' = [log EXCEPT ![p] = Append(@, "warnGet")]
    /\ idx' = [idx EXCEPT ![p] = Len(questions[p]) + 1]
    /\ UNCHANGED <<catalogVars, past, dbVars, pc, calls, sessionData, session, questions,
                   difficultyAdjustment, currentQuestion, individualAdjustment,
                   result, before>>

\* GetQuestionByID fails (no such row, or a store error): warn, continue
LoopReadFail(p) ==
    /\ pc[p] = "loop"
    /\ idx[p] <= Len(questions[p])
    /\ HasQuestionId(Entry(p)) /\ HasIsCorrect(Entry(p))
    /\ ops' = [ops EXCEPT ![p] = Append(@, ReadOp(Entry(p).questionId, FALSE, Nil))]
    /\ log' = [log EXCEPT ![p] = Append(@, "warnGet")]
    /\ idx' = [idx EXCEPT ![p] = @ + 1]
    /\ UNCHANGED <<catalogVars, past, dbVars, pc, calls, sessionData, session, questions,
                   difficultyAdjustment, currentQuestion, individualAdjustment,
                   result, before>>

\* variant: the override is assigned to the session-level adjustment, so
\* it carries over to the entries that follow
LoopRead_SharedAdjustment(p) ==
    /\ pc[p] = "loop"
    /\ idx[p] <= Len(questions[p])
    /\ HasQuestionId(Entry(p)) /\ HasIsCorrect(Entry(p))
    /\ Entry(p).questionId \in DOMAIN dbQuestions
    /\ currentQuestion' = [currentQuestion EXCEPT ![p] =
                              dbQuestions[Entry(p).questionId]]
    /\ individualAdjustment' = [individualAdjustment EXCEPT ![p] =
           IndividualAdjustmentFor(difficultyAdjustment[p], Entry(p).isCorrect,
                                   AccuracyRate(session[p]))]
    /\ difficultyAdjustment' = [difficultyAdjustment EXCEPT ![p] =
           IndividualAdjustmentFor(difficultyAdjustment[p], Entry(p).isCorrect,
                                   AccuracyRate(session[p]))]
    /\ ops' = [ops EXCEPT ![p] =
                  Append(@, ReadOp(Entry(p).questionId, TRUE,
                                   dbQuestions[Entry(p).questionId]))]
    /\ pc' = [pc EXCEPT ![p] = "write"]
    /\ UNCHANGED <<catalogVars, past, dbVars, calls, sessionData, session, questions, idx,
                   result, log, before>>

\* variant: every adjustment starts from the difficulty the question had
\* when the call began
LoopRead_FromSnapshot(p) ==
    /\ pc[p] = "loop"
    /\ idx[p] <= Len(questions[p])
    /\ HasQuestionId(Entry(p)) /\ HasIsCorrect(Entry(p))
    /\ Entry(p).questionId \in DOMAIN dbQuestions
    /\ currentQuestion' = [currentQuestion EXCEPT ![p] =
                              before[p][Entry(p).questionId]]
    /\ individualAdjustment' = [individualAdjustment EXCEPT ![p] =
           IndividualAdjustmentFor(difficultyAdjustment[p], Entry(p).isCorrect,
                                   AccuracyRate(session[p]))]
    /\ ops' = [ops EXCEPT ![p] =
                  Append(@, ReadOp(Entry(p).questionId, TRUE,
                                   before[p][Entry(p).questionId]))]
    /\ pc' = [pc EXCEPT ![p] = "write"]
    /\ UNCHANGED <<catalogVars, past, dbVars, calls, sessionData, session, questions, idx,
                   difficultyAdjustment, result, log, before>>

\* GetQuestionByID succeeds; the individual adjustment is computed
LoopRead(p) ==
    /\ pc[p] = "loop"
    /\ idx[p] <= Len(questions[p])
    /\ HasQuestionId(Entry(p)) /\ HasIsCorrect(Entry(p))
    /\ Entry(p).questionId \in DOMAIN dbQuestions
    /\ currentQuestion' = [currentQuestion EXCEPT ![p] =
                              dbQuestions[Entry(p).questionId]]
    /\ individualAdjustment' = [individualAdjustment EXCEPT ![p] =
           IndividualAdjustmentFor(difficultyAdjustment[p], Entry(p).isCorrect,
                                   AccuracyRate(session[p]))]
    /\ ops' = [ops EXCEPT ![p] =
                  Append(@, ReadOp(Entry(p).questionId, TRUE,
                                   dbQuestions[Entry(p).questionId]))]
    /\ pc' = [pc EXCEPT ![p] = "write"]
    /\ UNCHANGED <<catalogVars, past, dbVars, calls, sessionData, session, questions, idx,
                   difficultyAdjustment, result, log, before>>

\* variant: the UPDATE has no WHERE clause
UpdateQuestionDifficulty_NoWhere(db, questionID, difficulty) ==
    [q \in DOMAIN db |-> difficulty]

\* UPDATE questions SET difficulty = ? WHERE id = ?
UpdateQuestionDifficulty(db, questionID, difficulty) ==
    [q \in DOMAIN db |-> IF q = questionID THEN difficulty ELSE db[q]]

\* variant: the difficulty is computed from the stored value at the time
\* of the write (read and write in one transaction)
LoopWrite_Atomic(p, stored) ==
    LET q   == Entry(p).questionId
        new == NewDifficulty(dbQuestions[q], individualAdjustment[p])
    IN  /\ pc[p] = "write"
        /\ dbQuestions' = IF stored
                          THEN UpdateQuestionDifficulty(dbQuestions, q, new)
                          ELSE dbQuestions
        /\ ops' = [ops EXCEPT ![p] = Append(@, WriteOp(q, stored, new, dbQuestions[q],
                                             Entry(p).isCorrect,
                                             individualAdjustment[p]))]
        /\ log' = [log EXCEPT ![p] =
                      Append(@, IF stored THEN "updated" ELSE "warnUpdate")]
        /\ idx' = [idx EXCEPT ![p] = @ + 1]
        /\ pc' = [pc EXCEPT ![p] = "loop"]
        /\ UNCHANGED <<catalogVars, past, dbSessions, dbWrong, calls, sessionData, session,
                       questions, difficultyAdjustment, currentQuestion,
                       individualAdjustment, result, before>>

\* new difficulty computed and written; the write may fail, which is logged
LoopWrite(p, stored) ==
    LET new == NewDifficulty(currentQuestion[p], individualAdjustment[p])
        q   == Entry(p).questionId
    IN  /\ pc[p] = "write"
        /\ dbQuestions' = IF stored
                          THEN UpdateQuestionDifficulty(dbQuestions, q, new)
                          ELSE dbQuestions
        /\ ops' = [ops EXCEPT ![p] = Append(@, WriteOp(q, stored, new, currentQuestion[p],
                                             Entry(p).isCorrect,
                                             individualAdjustment[p]))]
        /\ log' = [log EXCEPT ![p] =
                      Append(@, IF stored THEN "updated" ELSE "warnUpdate")]
        /\ idx' = [idx EXCEPT ![p] = @ + 1]
        /\ pc' = [pc EXCEPT ![p] = "loop"]
        /\ UNCHANGED <<catalogVars, past, dbSessions, dbWrong, calls, sessionData, session,
                       questions, difficultyAdjustment, currentQuestion,
                       individualAdjustment, result, before>>

\* the range loop is exhausted: return nil
LoopDone(p) ==
    /\ pc[p] = "loop"
    /\ idx[p] > Len(questions[p])
    /\ pc' = [pc EXCEPT ![p] = "wrong"]
    /\ UNCHANGED <<catalogVars, past, dbVars, calls, sessionData, session, localVars, result,
                   log, ops, before>>

----------------------------------------------------------------------------
(* AddWrongQuestionsFromSession                                            *)

\* questions.([]interface{}) panics unless the value is an array;
\* q.(map[string]interface{}) panics at the first element that is not an
\* object.  A missing "questions" key skips the loop.
FirstNonObject(items) ==
    IF \E k \in 1..Len(items) : items[k].kind # "object"
    THEN CHOOSE k \in 1..Len(items) :
            /\ items[k].kind # "object"
            /\ \A j \in 1..(k - 1) : items[j].kind = "object"
    ELSE Len(items) + 1

WrongPanics(v) ==
    \/ v.kind \in {"null", "other"}
    \/ v.kind = "list" /\ FirstNonObject(v.items) <= Len(v.items)

\* positions the loop reaches whose entry is isCorrect == false with a
\* string questionId
WrongCandidates(v) ==
    IF v.kind # "list" THEN {}
    ELSE { k \in 1..(FirstNonObject(v.items) - 1) :
              /\ HasIsCorrect(v.items[k]) /\ ~v.items[k].isCorrect
              /\ HasQuestionId(v.items[k]) }

\* the row AddWrongQuestion is given: a fresh id, the fixed note, and the
\* zero value of TimesReviewed
NewWrongQuestion ==
    [id |-> "wrong_new", notes |-> "Added from practice session", timesReviewed |-> 0]

\* SELECT COUNT(*) FROM wrong_questions WHERE question_id = ?, count > 0
IsQuestionMarkedWrong(w, questionID) == questionID \in DOMAIN w

\* variant: the row is written without asking IsQuestionMarkedWrong first,
\* so INSERT OR REPLACE replaces the row of a question already marked
AddWrongQuestions_Replace(w, v, failed) ==
    LET added == { v.items[k].questionId : k \in WrongCandidates(v) \ failed }
    IN  [q \in DOMAIN w \cup added |->
            IF q \in added THEN NewWrongQuestion ELSE w[q]]

\* wrong_questions after the loop: a question already marked keeps its row,
\* the others get a new one unless IsQuestionMarkedWrong or AddWrongQuestion
\* failed for them (positions in failed)
AddWrongQuestions(w, v, failed) ==
    LET added == { v.items[k].questionId : k \in WrongCandidates(v) \ failed }
    IN  [q \in DOMAIN w \cup added |->
            IF IsQuestionMarkedWrong(w, q) THEN w[q] ELSE NewWrongQuestion]

AddWrongPanic(p, failed) ==
    /\ pc[p] = "wrong"
    /\ WrongPanics(sessionData[p].questions)
    /\ failed \subseteq WrongCandidates(sessionData[p].questions)
    /\ dbWrong' = AddWrongQuestions(dbWrong, sessionData[p].questions, failed)
    /\ result' = [result EXCEPT ![p] = "panic"]
    /\ pc' = [pc EXCEPT ![p] = "done"]
    /\ UNCHANGED <<catalogVars, past, dbQuestions, dbSessions, calls, sessionData, session,
                   localVars, log, ops, before>>

AddWrongReturn(p, failed) ==
    /\ pc[p] = "wrong"
    /\ ~WrongPanics(sessionData[p].questions)
    /\ failed \subseteq WrongCandidates(sessionData[p].questions)
    /\ dbWrong' = AddWrongQuestions(dbWrong, sessionData[p].questions, failed)
    /\ pc' = [pc EXCEPT ![p] = "persist"]
    /\ UNCHANGED <<catalogVars, past, dbQuestions, dbSessions, calls, sessionData, session,
                   localVars, result, log, ops, before>>

----------------------------------------------------------------------------
(* return a.db.CreatePracticeSession(session)                              *)

\* variant: the call runs in a transaction; when the insert fails the
\* difficulty writes of the call are rolled back
CreatePracticeSession_Rollback(p, stored) ==
    /\ pc[p] = "persist"
    /\ stored => session[p].id \notin dbSessions
    /\ dbSessions' = IF stored THEN dbSessions \cup {session[p].id} ELSE dbSessions
    /\ dbQuestions' = IF stored THEN dbQuestions ELSE before[p]
    /\ ops' = [ops EXCEPT ![p] = Append(@, PersistOp(session[p].id, stored))]
    /\ result' = [result EXCEPT ![p] = IF stored THEN "nil" ELSE "error"]
    /\ pc' = [pc EXCEPT ![p] = "done"]
    /\ UNCHANGED <<catalogVars, past, dbWrong, calls, sessionData, session,
                   localVars, log, before>>

\* INSERT INTO practice_sessions: id is the primary key, so a second row
\* with the same id is rejected; any other store error fails it as well.
CreatePracticeSession(p, stored) ==
    /\ pc[p] = "persist"
    /\ stored => session[p].id \notin dbSessions
    /\ dbSessions' = IF stored THEN dbSessions \cup {session[p].id} ELSE dbSessions
    /\ ops' = [ops EXCEPT ![p] = Append(@, PersistOp(session[p].id, stored))]
    /\ result' = [result EXCEPT ![p] = IF stored THEN "nil" ELSE "error"]
    /\ pc' = [pc EXCEPT ![p] = "done"]
    /\ UNCHANGED <<catalogVars, past, dbQuestions, dbWrong, calls, sessionData, session,
                   localVars, log, before>>

----------------------------------------------------------------------------
Next ==
    \/ \E p \in Procs : pc[p] \in {"idle", "done"} /\ calls[p] > 0
                          /\ \E sd \in SessionDatas : SavePracticeSession(p, sd)
    \/ \E p \in Procs : UpdateNothing(p)
    \/ \E p \in Procs : UpdateParseError(p)
    \/ \E p \in Procs : UpdateBegin(p)
    \/ \E p \in Procs : LoopSkip(p)
    \/ \E p \in Procs : LoopReadFail(p)
    \/ \E p \in Procs : LoopRead(p)
    \/ \E p \in Procs, stored \in BOOLEAN : LoopWrite(p, stored)
    \/ \E p \in Procs : LoopDone(p)
    \/ \E p \in Procs : pc[p] = "wrong"
          /\ \E failed \in SUBSET WrongCandidates(sessionData[p].questions) :
                AddWrongPanic(p, failed)
    \/ \E p \in Procs : pc[p] = "wrong"
          /\ \E failed \in SUBSET WrongCandidates(sessionData[p].questions) :
                AddWrongReturn(p, failed)
    \/ \E p \in Procs, stored \in BOOLEAN : CreatePracticeSession(p, stored)

Spec == Init /\ [][Next]_vars

----------------------------------------------------------------------------
(* Properties of the difficulty adjustment                                 *)

Max(a, b) == IF a >= b THEN a ELSE b

Min(a, b) == IF a <= b THEN a ELSE b

Clamp15(x) == Max(1, Min(5, x))

InRange(d) == d # Nil /\ d[1] \in 1..5

\* the call of p got past the parse of Details and computed a base adjustment
PassBegan(p) == Len(log[p]) > 0 /\ log[p][1] = "accuracy"

Correct100(p) == 100 * session[p].CorrectCount

Total(p) == session[p].TotalQuestions

Writes(p) == { k \in 1..Len(ops[p]) : ops[p][k].op = "write" }

Reads(p) == { k \in 1..Len(ops[p]) : ops[p][k].op = "read" }

\* the last operation of p is a successful difficulty write
JustWrote(p) ==
    /\ Len(ops[p]) > 0
    /\ ops[p][Len(ops[p])].op = "write"
    /\ ops[p][Len(ops[p])].ok

LastOp(p) == ops[p][Len(ops[p])]

\* C1: with totalQuestions > 0 the session-level adjustment is +1 iff
\* accuracy > 80, 0 iff 60 <= accuracy <= 80, -1 iff 40 <= accuracy < 60,
\* -2 iff 20 <= accuracy < 40 and -3 iff accuracy < 20 (accuracy =
\* 100*correctCount/totalQuestions); 80 and 60 give 0, 40 gives -1, 20 gives -2.
C1_BaseAdjustmentBands ==
    \A p \in Procs : PassBegan(p) =>
        LET c == Correct100(p)
            t == Total(p)
            a == difficultyAdjustment[p]
        IN  /\ t > 0
            /\ (a = 1)  <=> (c > 80 * t)
            /\ (a = 0)  <=> (60 * t <= c /\ c <= 80 * t)
            /\ (a = -1) <=> (40 * t <= c /\ c < 60 * t)
            /\ (a = -2) <=> (20 * t <= c /\ c < 40 * t)
            /\ (a = -3) <=> (c < 20 * t)

\* a pass at accuracy exactly 80 whose base adjustment is 0
C1_Witness ==
    \E p \in Procs : PassBegan(p) /\ Correct100(p) = 80 * Total(p)
                     /\ difficultyAdjustment[p] = 0

\* C2: when the difficulty read is present, the value written is
\* max(1, min(5, d + a)) with a in -3..1; every value written is in 1..5
\* whatever was read, and a successful write leaves that value in the store.
C2_WriteIsClamped ==
    \A p \in Procs :
        /\ \A k \in Writes(p) :
              LET e == ops[p][k]
              IN  /\ e.adj \in -3..1
                  /\ e.val # Nil /\ e.val[1] \in 1..5
                  /\ e.old # Nil => e.val = Some(Clamp15(e.old[1] + e.adj))
        /\ JustWrote(p) => dbQuestions[LastOp(p).q] = LastOp(p).val

\* a question read above the range, raised, and written back as 5
C2_Witness ==
    \E p \in Procs : JustWrote(p) /\ LastOp(p).old # Nil
                     /\ LastOp(p).old[1] > 5 /\ LastOp(p).adj = 1
                     /\ dbQuestions[LastOp(p).q] = Some(5)

\* C3: an entry answered correctly in a session with accuracy <= 60 gets
\* individual adjustment 0 whatever the base adjustment is, so a difficulty
\* in 1..5 is written back unchanged.
C3_CorrectInPoorSession ==
    \A p \in Procs :
        /\ \A k \in Writes(p) :
              LET e == ops[p][k]
              IN  (e.isCorrect /\ Correct100(p) <= 60 * Total(p)) =>
                     /\ e.adj = 0
                     /\ InRange(e.old) => e.val = e.old
        /\ (pc[p] = "write" /\ Entry(p).isCorrect
              /\ Correct100(p) <= 60 * Total(p)) => individualAdjustment[p] = 0

\* base adjustment -2 or -3, a correct entry, its difficulty kept
C3_Witness ==
    \E p \in Procs : /\ JustWrote(p) /\ difficultyAdjustment[p] <= -2
                     /\ LastOp(p).isCorrect /\ LastOp(p).adj = 0
                     /\ InRange(LastOp(p).old)
                     /\ dbQuestions[LastOp(p).q] = LastOp(p).old

\* C4: an entry answered incorrectly in a session with accuracy >= 80
\* (exactly 80 included, where the base is 0) gets individual adjustment -1;
\* at accuracy exactly 80 a correct entry gets 0 and keeps its difficulty.
C4_WrongInStrongSession ==
    \A p \in Procs : \A k \in Writes(p) :
        LET e == ops[p][k]
        IN  /\ (~e.isCorrect /\ Correct100(p) >= 80 * Total(p)) =>
                  /\ e.adj = -1
                  /\ e.old # Nil => e.val = Some(Clamp15(e.old[1] - 1))
            /\ (e.isCorrect /\ Correct100(p) = 80 * Total(p)) =>
                  /\ e.adj = 0
                  /\ InRange(e.old) => e.val = e.old

\* accuracy exactly 80, a question at 2 answered incorrectly ends at 1
C4_Witness ==
    \E p \in Procs : /\ JustWrote(p) /\ Correct100(p) = 80 * Total(p)
                     /\ difficultyAdjustment[p] = 0
                     /\ ~LastOp(p).isCorrect /\ LastOp(p).old = Some(2)
                     /\ dbQuestions[LastOp(p).q] = Some(1)

\* C5: an entry to which neither override applies (correct with accuracy
\* > 60, incorrect with accuracy < 80) gets the base adjustment unchanged.
C5_OtherwiseBase ==
    \A p \in Procs :
        /\ \A k \in Writes(p) :
              LET e == ops[p][k]
              IN  ((e.isCorrect /\ Correct100(p) > 60 * Total(p))
                   \/ (~e.isCorrect /\ Correct100(p) < 80 * Total(p)))
                  => e.adj = difficultyAdjustment[p]
        /\ (pc[p] = "write"
              /\ \/ (Entry(p).isCorrect /\ Correct100(p) > 60 * Total(p))
                 \/ (~Entry(p).isCorrect /\ Correct100(p) < 80 * Total(p)))
           => individualAdjustment[p] = difficultyAdjustment[p]

\* an incorrect entry in a session with accuracy in [60, 80) keeps the
\* base adjustment 0 and its difficulty
C5_Witness ==
    \E p \in Procs : /\ JustWrote(p)
                     /\ ~LastOp(p).isCorrect
                     /\ Correct100(p) >= 60 * Total(p)
                     /\ Correct100(p) < 80 * Total(p)
                     /\ LastOp(p).adj = 0
                     /\ LastOp(p).val = LastOp(p).old

\* C6: when the difficulty read is absent the value written is
\* max(1, min(5, 3 + a)); with a = 0 it is 3.
C6_AbsentBaseline ==
    \A p \in Procs : \A k \in Writes(p) :
        LET e == ops[p][k]
        IN  e.old = Nil =>
               /\ e.val = Some(Clamp15(3 + e.adj))
               /\ e.adj = 0 => e.val = Some(3)

\* a never-scored question adjusted by 0 is stored with difficulty 3
C6_Witness ==
    \E p \in Procs : /\ JustWrote(p) /\ LastOp(p).old = Nil
                     /\ LastOp(p).adj = 0
                     /\ dbQuestions[LastOp(p).q] = Some(3)

----------------------------------------------------------------------------
(* Properties of SavePracticeSession around the adjustment pass            *)

\* the per-question payload does not decode into a list of entries: the
\* key is missing, the value is not an array, or an element is neither an
\* object nor null
CannotDecode(v) ==
    \/ v.kind \in {"absent", "other"}
    \/ v.kind = "list" /\ \E k \in 1..Len(v.items) : v.items[k].kind = "number"

\* the pass reported a failure: parse error, failed read or failed write
PassFailed(p) ==
    \E k \in 1..Len(log[p]) : log[p][k] \in {"warnDifficulties", "warnGet", "warnUpdate"}

\* C7: a session with totalQuestions = 0 causes no store read, no store
\* write and no log entry from the adjustment pass, whatever its
\* correctCount and per-question payload are.
C7_ZeroQuestionsNoWork ==
    \A p \in Procs :
        (sessionData[p].hdr = "ok" /\ Total(p) = 0) =>
            /\ Reads(p) = {} /\ Writes(p) = {}
            /\ log[p] = <<>>
            /\ dbQuestions = before[p]

\* a finished call with totalQuestions = 0, a positive correctCount and a
\* payload naming a stored question
C7_Witness ==
    \E p \in Procs :
        /\ pc[p] = "done" /\ result[p] = "nil" /\ Total(p) = 0
        /\ session[p].CorrectCount > 0
        /\ sessionData[p].questions.kind = "list"
        /\ \E k \in 1..Len(sessionData[p].questions.items) :
              LET q == sessionData[p].questions.items[k]
              IN  HasQuestionId(q) /\ HasIsCorrect(q) /\ q.questionId \in StoredIds

\* C8: no difficulty is written before the session record has been
\* persisted.
C8_AdjustAfterPersist ==
    \A p \in Procs : \A k \in Writes(p) :
        \E j \in 1..(k - 1) : ops[p][j].op = "persist" /\ ops[p][j].ok

\* C9: whatever fails inside the adjustment pass (parse error, store read
\* failure, store write failure), the call still persists the session and
\* returns exactly the result of persisting it.
C9_SaveIndependentOfPass ==
    \A p \in Procs :
        (pc[p] = "done" /\ sessionData[p].hdr = "ok" /\ PassFailed(p)) =>
            /\ Len(ops[p]) > 0
            /\ LastOp(p).op = "persist"
            /\ result[p] = IF LastOp(p).ok THEN "nil" ELSE "error"

\* C10: with totalQuestions > 0 and a payload that does not decode, the
\* pass is aborted before any store access: no difficulty is read or
\* written and the stored difficulties are unchanged.
C10_ParseErrorAborts ==
    \A p \in Procs :
        (sessionData[p].hdr = "ok" /\ Total(p) > 0
           /\ CannotDecode(sessionData[p].questions)) =>
            /\ Reads(p) = {} /\ Writes(p) = {}
            /\ dbQuestions = before[p]
            /\ pc[p] \notin {"loop", "write"}
            /\ pc[p] # "update" => log[p] = <<"warnDifficulties">>

\* the pass was aborted for a list that holds a valid entry of a stored
\* question next to an element that is not an object
C10_Witness ==
    \E p \in Procs :
        /\ pc[p] \in {"wrong", "done"} /\ Total(p) > 0
        /\ sessionData[p].hdr = "ok"
        /\ CannotDecode(sessionData[p].questions)
        /\ log[p] = <<"warnDifficulties">>
        /\ sessionData[p].questions.kind = "list"
        /\ \E k \in 1..Len(sessionData[p].questions.items) :
              LET q == sessionData[p].questions.items[k]
              IN  HasQuestionId(q) /\ HasIsCorrect(q) /\ q.questionId \in StoredIds

----------------------------------------------------------------------------
(* Properties of the loop over the per-question entries                    *)

\* an entry the loop does not skip: an object with a string questionId and
\* a boolean isCorrect
WellFormed(e) == e.kind = "object" /\ e.idType = "string" /\ e.boolType = "bool"

IsAdjustmentOp(e) == e.op \in {"read", "write"}

\* reads and writes of the call, in order
AdjustmentOps(p) == SelectSeq(ops[p], IsAdjustmentOp)

\* the pass of p ran its loop to the end
PassFinished(p) == PassBegan(p) /\ pc[p] \in {"wrong", "persist", "done"}

\* entries the loop has dealt with completely
EntriesDone(p) ==
    IF pc[p] \in {"loop", "write"}
    THEN SubSeq(questions[p], 1, idx[p] - 1)
    ELSE questions[p]

\* the adjustment the rules give an entry of session s
RuleAdjustment(e, s) ==
    IndividualAdjustmentFor(AdjustmentForAccuracy(AccuracyRate(s)),
                            e.isCorrect, AccuracyRate(s))

\* the store after a pass over the entries es in which every store
\* operation succeeds (an id without a row is read in vain)
RECURSIVE PassResult(_, _, _)
PassResult(store, es, s) ==
    IF es = <<>> THEN store
    ELSE LET e == Head(es)
             q == e.questionId
         IN  PassResult(IF q \in DOMAIN store
                        THEN UpdateQuestionDifficulty(
                                 store, q, NewDifficulty(store[q], RuleAdjustment(e, s)))
                        ELSE store,
                        Tail(es), s)

\* the store after the entries es met the outcomes recorded in os: one read
\* per entry and, only after a successful read, one write; ok is FALSE when
\* os is not of that form or an operation has a value the rules do not give
RECURSIVE Replay(_, _, _, _)
Replay(store, es, os, s) ==
    IF es = <<>> THEN [ok |-> os = <<>>, store |-> store]
    ELSE IF os = <<>> THEN [ok |-> FALSE, store |-> store]
    ELSE
      LET e == Head(es)
          r == Head(os)
      IN  IF r.op # "read" \/ r.q # e.questionId
          THEN [ok |-> FALSE, store |-> store]
          ELSE IF ~r.ok THEN Replay(store, Tail(es), Tail(os), s)
          ELSE IF Len(os) < 2 \/ e.questionId \notin DOMAIN store
               THEN [ok |-> FALSE, store |-> store]
          ELSE
            LET w == os[2]
                v == NewDifficulty(store[e.questionId], RuleAdjustment(e, s))
            IN  IF w.op # "write" \/ w.q # e.questionId \/ r.val # store[e.questionId]
                   \/ w.val # v
                THEN [ok |-> FALSE, store |-> store]
                ELSE Replay(IF w.ok
                            THEN UpdateQuestionDifficulty(store, e.questionId, v)
                            ELSE store,
                            Tail(es), Tail(Tail(os)), s)

\* no store operation of the call failed except reads of ids without a row
NoStoreFailure(p) ==
    \A k \in 1..Len(ops[p]) :
        ops[p][k].ok \/ (ops[p][k].op = "read" /\ ops[p][k].q \notin DOMAIN before[p])

\* C11: a malformed entry (questionId or isCorrect missing or of the wrong
\* type) costs no store read or write, and the other entries are adjusted
\* exactly as if it were not in the sequence.
C11_MalformedEntrySkipped ==
    \A p \in Procs : PassBegan(p) =>
        LET done == EntriesDone(p)
            good == SelectSeq(done, WellFormed)
        IN  /\ Cardinality(Reads(p)) =
                  Len(good) + (IF pc[p] = "write" THEN 1 ELSE 0)
            /\ \A k \in Reads(p) \cup Writes(p) :
                  \E j \in 1..Len(questions[p]) :
                      WellFormed(questions[p][j])
                      /\ questions[p][j].questionId = ops[p][k].q
            /\ (pc[p] # "write" /\ NoStoreFailure(p)) =>
                  dbQuestions = PassResult(before[p], good, session[p])

\* a finished pass over a malformed entry followed by an entry of a stored
\* question whose difficulty the pass changed
C11_Witness ==
    \E p \in Procs :
        /\ PassFinished(p) /\ Len(questions[p]) = 2
        /\ ~WellFormed(questions[p][1]) /\ WellFormed(questions[p][2])
        /\ Len(ops[p]) >= 2 /\ ops[p][2].op = "write" /\ ops[p][2].ok
        /\ dbQuestions[ops[p][2].q] # before[p][ops[p][2].q]

\* C12: a failed read or write is isolated to its question: no write follows
\* a failed read, the question keeps its stored difficulty, and the
\* remaining entries are processed and adjusted by the rules all the same.
C12_StoreFailureIsolated ==
    \A p \in Procs : PassBegan(p) =>
        LET os == AdjustmentOps(p)
        IN  /\ \A k \in 1..Len(os) :
                  /\ (os[k].op = "read" /\ ~os[k].ok /\ k < Len(os)) =>
                        os[k + 1].op = "read"
                  /\ os[k].op = "write" =>
                        k > 1 /\ os[k - 1].op = "read" /\ os[k - 1].ok
                        /\ os[k - 1].q = os[k].q
            /\ (pc[p] = "loop" /\ Len(os) > 0 /\ ~os[Len(os)].ok
                /\ os[Len(os)].q \in DOMAIN dbQuestions) =>
                  dbQuestions[os[Len(os)].q] =
                      Replay(before[p], SelectSeq(EntriesDone(p), WellFormed),
                             SubSeq(os, 1, Len(os) - 1), session[p]).store[os[Len(os)].q]
            /\ pc[p] # "write" =>
                  LET rp == Replay(before[p], SelectSeq(EntriesDone(p), WellFormed),
                                   os, session[p])
                  IN  rp.ok /\ rp.store = dbQuestions
            /\ PassFinished(p) =>
                  /\ Cardinality(Reads(p)) = Len(SelectSeq(questions[p], WellFormed))
                  /\ \A q \in DOMAIN dbQuestions :
                        (\A k \in 1..Len(os) : os[k].q = q => os[k].ok) =>
                            dbQuestions[q] =
                                PassResult(before[p],
                                           SelectSeq(questions[p], WellFormed),
                                           session[p])[q]

\* a finished pass whose first entry failed at the store (a stored
\* question's read or write) and whose second entry was adjusted
C12_Witness ==
    \E p \in Procs :
        /\ PassFinished(p)
        /\ Len(ops[p]) >= 3
        /\ \/ (ops[p][1].op = "read" /\ ~ops[p][1].ok /\ ops[p][1].q \in StoredIds
               /\ ops[p][3].op = "write" /\ ops[p][3].ok
               /\ dbQuestions[ops[p][3].q] # before[p][ops[p][3].q])
           \/ (ops[p][2].op = "write" /\ ~ops[p][2].ok
               /\ Len(ops[p]) >= 4 /\ ops[p][4].op = "write" /\ ops[p][4].ok
               /\ ops[p][4].q # ops[p][2].q
               /\ dbQuestions[ops[p][4].q] # before[p][ops[p][4].q])

\* the sequences with the elements of es in some order
Reorderings(es) ==
    { [i \in 1..Len(es) |-> es[f[i]]] :
        f \in { g \in [1..Len(es) -> 1..Len(es)] :
                  \A i, j \in 1..Len(es) : g[i] = g[j] => i = j } }

\* the pass of p over the entries es, every store operation succeeding
PassOver(p, es) == PassResult(before[p], SelectSeq(es, WellFormed), session[p])

\* no question is named by two well-formed entries that differ in isCorrect
SameAnswerPerQuestion(es) ==
    \A i, j \in 1..Len(es) :
        (WellFormed(es[i]) /\ WellFormed(es[j])
         /\ es[i].questionId = es[j].questionId) =>
            es[i].isCorrect = es[j].isCorrect

\* C13 as stated: after a pass without store failures the stored
\* difficulties are those of the pass over any reordering of the entries.
C13_AnyOrderSameResult ==
    \A p \in Procs :
        (PassFinished(p) /\ NoStoreFailure(p)) =>
            \A es \in Reorderings(questions[p]) : PassOver(p, es) = dbQuestions

\* C13 amended: the order of the entries does not matter provided the
\* well-formed entries that name the same question agree in isCorrect.
C13_OrderIndependentPerQuestion ==
    \A p \in Procs :
        (PassFinished(p) /\ NoStoreFailure(p)
         /\ SameAnswerPerQuestion(questions[p])) =>
            \A es \in Reorderings(questions[p]) : PassOver(p, es) = dbQuestions

\* a finished pass over two entries of different stored questions with
\* different adjustments, both of which changed the stored difficulty
C13_Witness ==
    \E p \in Procs :
        /\ PassFinished(p) /\ NoStoreFailure(p)
        /\ Len(questions[p]) = 2
        /\ WellFormed(questions[p][1]) /\ WellFormed(questions[p][2])
        /\ questions[p][1].questionId # questions[p][2].questionId
        /\ questions[p][1].isCorrect # questions[p][2].isCorrect
        /\ \A q \in StoredIds : dbQuestions[q] # before[p][q]

\* C16: the pass creates and deletes no question, never inserts an id that
\* has no row, and leaves every question not named by a well-formed entry
\* as it was.
C16_NoQuestionCreatedOrDeleted ==
    \A p \in Procs : PassBegan(p) =>
        /\ DOMAIN dbQuestions = DOMAIN before[p]
        /\ \A j \in 1..Len(questions[p]) :
              (WellFormed(questions[p][j])
               /\ questions[p][j].questionId \notin DOMAIN before[p]) =>
                  questions[p][j].questionId \notin DOMAIN dbQuestions
        /\ \A q \in DOMAIN dbQuestions :
              (\A j \in 1..Len(questions[p]) :
                  WellFormed(questions[p][j]) => questions[p][j].questionId # q) =>
                  dbQuestions[q] = before[p][q]

\* a finished pass that named an id without a row and changed one stored
\* question while the other was not named
C16_Witness ==
    \E p \in Procs :
        /\ PassFinished(p)
        /\ \E k \in Reads(p) : ops[p][k].q = GhostId
        /\ \E k \in Writes(p) :
              ops[p][k].ok /\ dbQuestions[ops[p][k].q] # before[p][ops[p][k].q]
        /\ GhostId \notin DOMAIN dbQuestions

\* C17: the store operations of a pass follow the order of the entries:
\* the i-th read is the read of the i-th well-formed entry, a write is the
\* operation right after the successful read of its entry, nothing follows
\* a failed operation but the read of the next entry, and no entry is read
\* or written twice.
C17_OperationsInEntryOrder ==
    \A p \in Procs : PassBegan(p) =>
        LET os    == AdjustmentOps(p)
            reads == SelectSeq(os, LAMBDA o : o.op = "read")
            good  == SelectSeq(questions[p], WellFormed)
        IN  /\ Len(reads) <= Len(good)
            /\ \A i \in 1..Len(reads) : reads[i].q = good[i].questionId
            /\ \A k \in 1..Len(os) :
                  /\ os[k].op = "write" =>
                        k > 1 /\ os[k - 1].op = "read" /\ os[k - 1].ok
                        /\ os[k - 1].q = os[k].q
                  /\ (os[k].op = "read" /\ os[k].ok) =>
                        IF k < Len(os) THEN os[k + 1].op = "write"
                        ELSE pc[p] = "write"
                  /\ (~os[k].ok /\ k < Len(os)) => os[k + 1].op = "read"
            /\ Cardinality(Writes(p)) <= Cardinality(Reads(p))
            /\ PassFinished(p) => Len(reads) = Len(good)

\* a finished pass over two entries of the same question whose first write
\* failed: one read and one write each, in order
C17_Witness ==
    \E p \in Procs :
        /\ PassFinished(p)
        /\ Len(questions[p]) = 2
        /\ Len(AdjustmentOps(p)) = 4
        /\ ops[p][1].op = "read" /\ ops[p][2].op = "write" /\ ~ops[p][2].ok
        /\ ops[p][3].op = "read" /\ ops[p][4].op = "write"
        /\ ops[p][3].q = ops[p][1].q

----------------------------------------------------------------------------
(* Two calls of SavePracticeSession at once                                *)

\* sessions of one answered question naming a stored question
ConcSessionDatas ==
    { sd \in [hdr : {"ok"}, id : SessionIds, totalQuestions : {1},
              correctCount : 0..1, questions : Payloads] :
         /\ sd.questions.kind = "list"
         /\ Len(sd.questions.items) = 1
         /\ sd.questions.items[1] \in ValidEntries
         /\ sd.questions.items[1].questionId \in StoredIds }

\* each of the two processes makes one call
InitConc ==
    /\ dbQuestions \in InitialStores
    /\ dbSessions = {}
    /\ dbWrong = [q \in {} |-> 0]
    /\ pc = [p \in Procs |-> "idle"]
    /\ calls = [p \in Procs |-> 1]
    /\ sessionData = [p \in Procs |-> NoData]
    /\ session = [p \in Procs |-> NoSession]
    /\ questions = [p \in Procs |-> <<>>]
    /\ idx = [p \in Procs |-> 0]
    /\ difficultyAdjustment = [p \in Procs |-> 0]
    /\ currentQuestion = [p \in Procs |-> Nil]
    /\ individualAdjustment = [p \in Procs |-> 0]
    /\ result = [p \in Procs |-> "none"]
    /\ log = [p \in Procs |-> <<>>]
    /\ ops = [p \in Procs |-> <<>>]
    /\ before = [p \in Procs |-> dbQuestions]
    /\ CatalogIdle

NextConc ==
    \/ \E p \in Procs : pc[p] \in {"idle", "done"} /\ calls[p] > 0
                          /\ \E sd \in ConcSessionDatas : SavePracticeSession(p, sd)
    \/ \E p \in Procs : UpdateBegin(p)
    \/ \E p \in Procs : LoopReadFail(p)
    \/ \E p \in Procs : LoopRead(p)
    \/ \E p \in Procs, stored \in BOOLEAN : LoopWrite(p, stored)
    \/ \E p \in Procs : LoopDone(p)
    \/ \E p \in Procs : pc[p] = "wrong"
          /\ \E failed \in SUBSET WrongCandidates(sessionData[p].questions) :
                AddWrongReturn(p, failed)
    \/ \E p \in Procs, stored \in BOOLEAN : CreatePracticeSession(p, stored)

SpecConc == InitConc /\ [][NextConc]_vars

\* the store after the pass of p and then the pass of r, one after the
\* other, from the store both calls started with
Serial(p, r) ==
    PassResult(PassResult(before[p], SelectSeq(questions[p], WellFormed), session[p]),
               SelectSeq(questions[r], WellFormed), session[r])

\* C14: the read-modify-write is not atomic: a write stores the difficulty
\* computed from the value its pass read, whatever another pass has stored
\* since, so of two passes that both read the old value the first writer's
\* update is lost.
C14_WriteFromEarlierRead ==
    [][\A p \in Procs :
          (pc[p] = "write" /\ pc'[p] = "loop" /\ dbQuestions' # dbQuestions) =>
              /\ dbQuestions'[Entry(p).questionId] =
                     NewDifficulty(currentQuestion[p], individualAdjustment[p])
              /\ \A r \in Procs \ {p} :
                    (pc[r] = "write" /\ Entry(r).questionId = Entry(p).questionId) =>
                        /\ pc'[r] = "write"
                        /\ currentQuestion'[r] = currentQuestion[r]]_vars

\* both passes have run from the same store without a store failure and
\* the stored difficulties are those of neither serial order
C14_Witness ==
    /\ \A p \in Procs : PassFinished(p) /\ NoStoreFailure(p)
    /\ before[1] = before[2]
    /\ dbQuestions # Serial(1, 2)
    /\ dbQuestions # Serial(2, 1)

----------------------------------------------------------------------------
(* The questions table: schema migration, imports, edits and listings      *)

MaxBatch == 2

MaxCreated == 3

MaxOps == 2

\* COALESCE([index], 999999) in the ORDER BY of the two listings
IndexSentinel == 999999

GroupIds == {"grp"}

\* ids as fmt.Sprintf("q_%d_%d_%d", nanoseconds, rand.Int63(), i) makes
\* them: different from every id made before
NewId(k) == "n" \o ToString(k)

\* ---- values of an import item's fields as encoding/json decodes them ----

\* item["question"]: a string, or no string (key missing or another type)
StringField(s) == [t |-> "string", s |-> s]

NoString == [t |-> "absent", s |-> ""]

\* a JSON number decodes to a float64, kept here in halves (h = 2 * value);
\* the CSV import stores a Go int instead
Float64Field(h) == [t |-> "float64", h |-> h]

IntField(n) == [t |-> "int", h |-> 2 * n]

NoNumber == [t |-> "absent", h |-> 0]

\* int(f): conversion of a float64 truncates toward zero
IntOf(h) == IF h >= 0 THEN h \div 2 ELSE 0 - ((0 - h) \div 2)

\* value, ok := item[key].(float64), then int(value) when ok
FloatFieldToInt(f) == IF f.t = "float64" THEN Some(IntOf(f.h)) ELSE Nil

\* item["options"]: nil when the key is missing, a number, or an array of
\* strings
NilValue == [kind |-> "nil", n |-> 0, elems |-> <<>>]

NumberValue(n) == [kind |-> "number", n |-> n, elems |-> <<>>]

ArrayValue(elems) == [kind |-> "array", n |-> 0, elems |-> elems]

RECURSIVE JoinQuoted(_)
JoinQuoted(elems) ==
    IF elems = <<>> THEN ""
    ELSE IF Len(elems) = 1 THEN "\"" \o elems[1] \o "\""
    ELSE "\"" \o elems[1] \o "\"," \o JoinQuoted(Tail(elems))

\* json.Marshal(item["options"]): the compact encoding
MarshalOptions(v) ==
    CASE v.kind = "nil"    -> "null"
      [] v.kind = "number" -> ToString(v.n)
      [] OTHER             -> "[" \o JoinQuoted(v.elems) \o "]"

OptionValues == {NilValue, NumberValue(-1), NumberValue(1), ArrayValue(<<"a">>)}

\* another encoding of ["a"]: a json.RawMessage keeps the caller's bytes
SpacedArray == "[ \"a\" ]"

RawOptions == {MarshalOptions(ArrayValue(<<"a">>)), SpacedArray}

\* json.Unmarshal of a text into interface{}; ok is FALSE for a text that
\* is not JSON
UnmarshalOptions(text) ==
    IF \E v \in OptionValues : MarshalOptions(v) = text
    THEN [ok |-> TRUE, value |-> CHOOSE v \in OptionValues : MarshalOptions(v) = text]
    ELSE IF text = SpacedArray
         THEN [ok |-> TRUE, value |-> ArrayValue(<<"a">>)]
         ELSE [ok |-> FALSE, value |-> NilValue]

ImportItem(q, o, d, i) == [question |-> q, options |-> o, difficulty |-> d, index |-> i]

\* ---- statements on table questions ----

\* INSERT INTO questions (..., [index], ...): rejected when the id is there
\* already (PRIMARY KEY) or the table has no column [index]; fails is a
\* failure of the store itself
CreateQuestion(st, id, row, difficulty, fails) ==
    IF fails \/ ~st.hasIndex \/ id \in DOMAIN st.rows
    THEN [err |-> TRUE, st |-> st]
    ELSE [err |-> FALSE,
          st  |-> [st EXCEPT
                     !.rows  = [q \in DOMAIN st.rows \cup {id} |->
                                   IF q = id THEN row ELSE st.rows[q]],
                     !.diffs = [q \in DOMAIN st.diffs \cup {id} |->
                                   IF q = id THEN difficulty ELSE st.diffs[q]]]]

\* UPDATE questions SET question = ?, options = ?, difficulty = ?,
\* [index] = ? ... WHERE id = ?: no row with that id is no error
UpdateQuestion(st, id, row, difficulty, fails) ==
    IF fails \/ ~st.hasIndex
    THEN [err |-> TRUE, st |-> st]
    ELSE [err |-> FALSE,
          st  |-> [st EXCEPT
                     !.rows  = [q \in DOMAIN st.rows |->
                                   IF q = id
                                   THEN [row EXCEPT !.created_at = st.rows[q].created_at]
                                   ELSE st.rows[q]],
                     !.diffs = [q \in DOMAIN st.diffs |->
                                   IF q = id THEN difficulty ELSE st.diffs[q]]]]

\* INSERT OR IGNORE INTO question_group_relations
AddQuestionToGroup(st, groupID, questionID, fails) ==
    IF fails THEN [err |-> TRUE, st |-> st]
    ELSE [err |-> FALSE, st |-> [st EXCEPT !.rel = @ \cup {<<groupID, questionID>>}]]

\* ORDER BY COALESCE([index], 999999), created_at DESC
Coalesce(index) == IF index = Nil THEN IndexSentinel ELSE index[1]

ListedBefore(rows, a, b) ==
    \/ Coalesce(rows[a].index) < Coalesce(rows[b].index)
    \/ /\ Coalesce(rows[a].index) = Coalesce(rows[b].index)
       /\ rows[a].created_at >= rows[b].created_at

\* the orders in which the ORDER BY may return the rows ids (rows that tie
\* come in any order)
Listings(rows, ids) ==
    { l \in [1..Cardinality(ids) -> ids] :
        /\ \A i, j \in 1..Cardinality(ids) : l[i] = l[j] => i = j
        /\ \A i, j \in 1..Cardinality(ids) : i < j => ListedBefore(rows, l[i], l[j]) }

Store == Snapshot(dbQuestions, dbRows, hasIndex, dbRelations)

\* the tables as an operation leaves them
Stored(st) ==
    /\ dbQuestions' = st.diffs
    /\ dbRows' = st.rows
    /\ hasIndex' = st.hasIndex
    /\ dbRelations' = st.rel

passVars == <<dbSessions, dbWrong, pc, calls, sessionData, session, localVars,
              result, log, ops, before, past>>

\* an operation is called: the clock may have moved on
Called(t) ==
    /\ budget > 0
    /\ budget' = budget - 1
    /\ t \in {now, now + 1}
    /\ now' = t
    /\ prior' = Store
    /\ UNCHANGED passVars

\* ---- addIndexColumnIfNotExists ----

\* a row of the table before the column [index] was introduced
OldRow(t) == [question |-> "Q", options |-> "[]", created_at |-> t]

\* SELECT [index] FROM questions LIMIT 1: an error when the table has no
\* such column, or when the store fails
SelectIndex(st, fails) == [err |-> fails \/ ~st.hasIndex]

\* ALTER TABLE questions ADD COLUMN [index] INTEGER DEFAULT NULL: an error
\* (duplicate column name) when the column is there; the existing rows get
\* the default
AlterAddIndex(st, fails) ==
    IF fails \/ st.hasIndex
    THEN [err |-> TRUE, st |-> st]
    ELSE [err |-> FALSE,
          st  |-> [st EXCEPT
                     !.hasIndex = TRUE,
                     !.rows = [q \in DOMAIN st.rows |->
                                  [question   |-> st.rows[q].question,
                                   options    |-> st.rows[q].options,
                                   index      |-> Nil,
                                   created_at |-> st.rows[q].created_at]]]]

\* variant: the column is added without looking whether it is there
addIndexColumn_Unchecked(st, selectFails, alterFails) ==
    AlterAddIndex(st, alterFails)

\* any error of the SELECT is taken to mean that the column is missing
addIndexColumnIfNotExists(st, selectFails, alterFails) ==
    IF SelectIndex(st, selectFails).err
    THEN AlterAddIndex(st, alterFails)
    ELSE [err |-> FALSE, st |-> st]

\* migrate() on a database file that has the tables: only the index column
\* may be missing
Migrate(selectFails, alterFails) ==
    LET r == addIndexColumnIfNotExists(Store, selectFails, alterFails)
    IN  /\ \E t \in {now, now + 1} : Called(t)
        /\ Stored(r.st)
        /\ ret' = [op |-> "migrate", err |-> r.err,
                   storeFailed |-> selectFails \/ (~hasIndex /\ alterFails)]
        /\ UNCHANGED made

\* ---- ImportQuestions ----

ImportResult(success, imported, errors, duplicates) ==
    [Success |-> success, Imported |-> imported, Errors |-> errors,
     Duplicates |-> duplicates]

\* "%s-%s" of the question text and the options as JSON text
DuplicateKey(question, options) == question \o "-" \o options

\* a NULL or empty JSON column is read as the default value
handleNullJSON(text, defaultValue) == IF text # "" THEN text ELSE defaultValue

\* existingMap as built from GetQuestions
ExistingKeys(rows) ==
    { DuplicateKey(rows[q].question, handleNullJSON(rows[q].options, "[]")) :
        q \in DOMAIN rows }

\* the loop over data from item i on.  s holds the tables (st), the keys
\* seen (existing), the ids made, the result, and what became of each item
\* (fates).  env: the groupID argument, the clock reading of the call, and
\* the items at which the INSERT of the question or of the relation fails.
RECURSIVE ImportLoop(_, _, _, _)
ImportLoop(s, data, i, env) ==
    IF i > Len(data) THEN s
    ELSE
      LET item == data[i]
          key  == DuplicateKey(item.question.s, MarshalOptions(item.options))
          id   == NewId(s.made + 1)
          row  == [question   |-> item.question.s,
                   options    |-> MarshalOptions(item.options),
                   index      |-> FloatFieldToInt(item.index),
                   created_at |-> env.time]
          ins  == CreateQuestion(s.st, id, row, FloatFieldToInt(item.difficulty),
                                 i \in env.createFails)
          grp  == IF env.groupID # ""
                  THEN AddQuestionToGroup(ins.st, env.groupID, id, i \in env.relFails)
                  ELSE [err |-> FALSE, st |-> ins.st]
      IN  IF item.question.t # "string" \/ item.question.s = ""
          THEN ImportLoop([s EXCEPT !.result.Errors = Append(@, "missing"),
                                    !.fates = Append(@, "missing")],
                          data, i + 1, env)
          ELSE IF key \in s.existing
          THEN ImportLoop([s EXCEPT !.result.Duplicates = @ + 1,
                                    !.fates = Append(@, "duplicate")],
                          data, i + 1, env)
          ELSE IF ins.err
          THEN ImportLoop([s EXCEPT !.made = @ + 1,
                                    !.result.Errors = Append(@, "save"),
                                    !.fates = Append(@, "failed")],
                          data, i + 1, env)
          ELSE ImportLoop([s EXCEPT !.st = grp.st,
                                    !.made = @ + 1,
                                    !.existing = @ \cup {key},
                                    !.result.Imported = @ + 1,
                                    !.result.Errors =
                                        IF grp.err THEN Append(@, "group") ELSE @,
                                    !.fates = Append(@, "created")],
                          data, i + 1, env)

\* what ImportQuestions(data, groupID) returns and leaves in the tables;
\* getFails: GetQuestions returns an error
ImportQuestionsOutcome(st, k, data, env, getFails) ==
    IF getFails \/ ~st.hasIndex
    THEN [st |-> st, made |-> k, existing |-> {},
          result |-> ImportResult(FALSE, 0, <<"get">>, 0),
          fates |-> [i \in 1..Len(data) |-> "none"]]
    ELSE ImportLoop([st |-> st, made |-> k, existing |-> ExistingKeys(st.rows),
                     result |-> ImportResult(TRUE, 0, <<>>, 0), fates |-> <<>>],
                    data, 1, env)

ImportEnv(groupID, time, createFails, relFails) ==
    [groupID |-> groupID, time |-> time, createFails |-> createFails,
     relFails |-> relFails]

\* the whole call is taken to fall within one second of the clock
ImportQuestions(data, groupID, getFails, createFails, relFails) ==
    \E t \in {now, now + 1} :
      LET o == ImportQuestionsOutcome(Store, made, data,
                  ImportEnv(groupID, t, createFails, relFails), getFails)
      IN  /\ Called(t)
          /\ o.made <= MaxCreated
          /\ Stored(o.st)
          /\ made' = o.made
          /\ ret' = [op |-> "ImportQuestions", result |-> o.result, data |-> data,
                     fates |-> o.fates]

\* ---- ImportQuestionsFromCSV ----

\* strconv.Atoi of a trimmed cell
Atoi(cell) ==
    CASE cell = "3" -> [err |-> FALSE, n |-> 3]
      [] cell = "9" -> [err |-> FALSE, n |-> 9]
      [] OTHER      -> [err |-> TRUE, n |-> 0]

DifficultyCells == {"", "3", "9", "x"}

OptionCells == {"", "oops", MarshalOptions(ArrayValue(<<"a">>))}

\* a data row under the header question,options,answer,difficulty; the
\* answer cell always holds valid JSON
CsvRows == [question : {"", "A"}, options : OptionCells, difficulty : DifficultyCells]

\* the questionData map of a row, its validity, and the errors it adds
CsvQuestionData(r) ==
    LET opt      == UnmarshalOptions(r.options)
        hasOpt   == r.options # "" /\ opt.ok
        dif      == Atoi(r.difficulty)
        hasDif   == r.difficulty # "" /\ ~dif.err /\ dif.n >= 1 /\ dif.n <= 5
    IN  [item   |-> ImportItem(StringField(r.question),
                               IF hasOpt THEN opt.value ELSE NilValue,
                               IF hasDif THEN IntField(dif.n) ELSE NoNumber,
                               NoNumber),
         valid  |-> r.question # "" /\ hasOpt,
         errors |-> (IF r.options # "" /\ ~opt.ok THEN <<"json">> ELSE <<>>)
                    \o (IF r.difficulty # "" /\ ~hasDif THEN <<"difficulty">> ELSE <<>>)
                    \o (IF r.question = "" THEN <<"required">> ELSE <<>>)
                    \o (IF ~hasOpt THEN <<"required">> ELSE <<>>)]

RECURSIVE CsvErrors(_)
CsvErrors(rs) ==
    IF rs = <<>> THEN <<>>
    ELSE CsvQuestionData(Head(rs)).errors \o CsvErrors(Tail(rs))

RECURSIVE CsvQuestions(_)
CsvQuestions(rs) ==
    IF rs = <<>> THEN <<>>
    ELSE (IF CsvQuestionData(Head(rs)).valid
          THEN <<CsvQuestionData(Head(rs)).item>> ELSE <<>>)
         \o CsvQuestions(Tail(rs))

ImportQuestionsFromCSV(rs, groupID, getFails, createFails, relFails) ==
    \E t \in {now, now + 1} :
      LET data == CsvQuestions(rs)
          o == ImportQuestionsOutcome(Store, made, data,
                  ImportEnv(groupID, t, createFails, relFails), getFails)
      IN  /\ Called(t)
          /\ IF data = <<>>
             THEN /\ UNCHANGED <<dbQuestions, dbRows, hasIndex, dbRelations, made>>
                  /\ ret' = [op |-> "ImportQuestionsFromCSV", rows |-> rs,
                             result |-> ImportResult(FALSE, 0,
                                            Append(CsvErrors(rs), "none valid"), 0)]
             ELSE /\ o.made <= MaxCreated
                  /\ Stored(o.st)
                  /\ made' = o.made
                  /\ ret' = [op |-> "ImportQuestionsFromCSV", rows |-> rs,
                             result |-> [o.result EXCEPT
                                           !.Errors = CsvErrors(rs) \o @]]

\* ---- CreateQuestion and UpdateQuestion of the application ----

\* a Question as the caller passes it: ID may be "", Options is the
\* caller's JSON text, Difficulty and Index are *int
QuestionArg(id, question, options, difficulty, index) ==
    [ID |-> id, Question |-> question, Options |-> options,
     Difficulty |-> difficulty, Index |-> index]

App_CreateQuestion(question, fails) ==
    \E t \in {now, now + 1} :
      LET id  == IF question.ID = "" THEN NewId(made + 1) ELSE question.ID
          row == [question |-> question.Question, options |-> question.Options,
                  index |-> question.Index, created_at |-> t]
          r   == CreateQuestion(Store, id, row, question.Difficulty, fails)
      IN  /\ Called(t)
          /\ question.ID = "" => made + 1 <= MaxCreated
          /\ made' = IF question.ID = "" THEN made + 1 ELSE made
          /\ Stored(r.st)
          /\ ret' = [op |-> "CreateQuestion", err |-> r.err, id |-> id]

App_UpdateQuestion(question, fails) ==
    \E t \in {now, now + 1} :
      LET row == [question |-> question.Question, options |-> question.Options,
                  index |-> question.Index, created_at |-> t]
          r   == UpdateQuestion(Store, question.ID, row, question.Difficulty, fails)
      IN  /\ Called(t)
          /\ Stored(r.st)
          /\ ret' = [op |-> "UpdateQuestion", err |-> r.err, id |-> question.ID]
          /\ UNCHANGED made

\* ---- ImportUserData ----

\* an element of data["questions"]: a map with the six string fields the
\* code asserts, or anything else
UserQuestion(id, question, createdAt, difficulty, index) ==
    [kind |-> "object", id |-> id, question |-> question, createdAt |-> createdAt,
     difficulty |-> difficulty, index |-> index]

\* the questions loop of ImportUserData from element i on; options are
\* json.Marshal of a missing key
RECURSIVE ImportUserQuestions(_, _, _, _)
ImportUserQuestions(s, qs, i, createFails) ==
    IF i > Len(qs) THEN s
    ELSE
      LET q   == qs[i]
          row == [question |-> q.question, options |-> MarshalOptions(NilValue),
                  index |-> FloatFieldToInt(q.index), created_at |-> q.createdAt]
          ins == CreateQuestion(s.st, q.id, row, FloatFieldToInt(q.difficulty),
                                i \in createFails)
      IN  IF q.kind # "object" THEN ImportUserQuestions(s, qs, i + 1, createFails)
          ELSE IF ins.err
          THEN ImportUserQuestions([s EXCEPT !.result.Errors = Append(@, "save")],
                                   qs, i + 1, createFails)
          ELSE ImportUserQuestions([s EXCEPT !.st = ins.st,
                                             !.result.Imported = @ + 1],
                                   qs, i + 1, createFails)

\* data holds "version" (or not) and "questions"; groups, sessions,
\* wrong questions and settings are not in the file
ImportUserData(hasVersion, qs, createFails) ==
    \E t \in {now, now + 1} :
      LET o == ImportUserQuestions(
                   [st |-> Store, result |-> ImportResult(TRUE, 0, <<>>, 0)],
                   qs, 1, createFails)
      IN  /\ Called(t)
          /\ IF hasVersion
             THEN /\ Stored(o.st)
                  /\ ret' = [op |-> "ImportUserData", result |-> o.result]
             ELSE /\ UNCHANGED <<dbQuestions, dbRows, hasIndex, dbRelations>>
                  /\ ret' = [op |-> "ImportUserData",
                             result |-> ImportResult(FALSE, 0, <<"version">>, 0)]
          /\ UNCHANGED made

\* ---- GetQuestions and GetQuestionsByGroup ----

GetQuestions(list, fails) ==
    \E t \in {now, now + 1} :
      /\ Called(t)
      /\ IF fails \/ ~hasIndex
         THEN ret' = [op |-> "GetQuestions", err |-> TRUE, list |-> <<>>]
         ELSE /\ list \in Listings(dbRows, DOMAIN dbRows)
              /\ ret' = [op |-> "GetQuestions", err |-> FALSE, list |-> list]
      /\ UNCHANGED <<dbQuestions, dbRows, hasIndex, dbRelations, made>>

\* JOIN question_group_relations: a relation whose question has no row
\* yields nothing
GroupMembers(groupID) ==
    { q \in DOMAIN dbRows : <<groupID, q>> \in dbRelations }

GetQuestionsByGroup(groupID, list, fails) ==
    \E t \in {now, now + 1} :
      /\ Called(t)
      /\ IF fails \/ ~hasIndex
         THEN ret' = [op |-> "GetQuestionsByGroup", err |-> TRUE, list |-> <<>>]
         ELSE /\ list \in Listings(dbRows, GroupMembers(groupID))
              /\ ret' = [op |-> "GetQuestionsByGroup", err |-> FALSE, list |-> list]
      /\ UNCHANGED <<dbQuestions, dbRows, hasIndex, dbRelations, made>>

----------------------------------------------------------------------------
(* The store operations as the application calls them                      *)

\* items that differ in what the duplicate check looks at
KeyItems ==
    { ImportItem(StringField(q), o, NoNumber, NoNumber) :
        q \in {"A", "A-"}, o \in OptionValues \ {NilValue} }
    \cup { ImportItem(q, ArrayValue(<<"a">>), NoNumber, NoNumber) :
             q \in {NoString, StringField("")} }

\* 0.5, 3 and 9 as difficulty
DifficultyFields == {Float64Field(1), Float64Field(6), Float64Field(18)}

\* 1, 2, the sentinel of the ORDER BY and the number after it as index
IndexFields ==
    {Float64Field(2), Float64Field(4), Float64Field(2 * IndexSentinel),
     Float64Field(2 * IndexSentinel + 2)}

\* items that differ in difficulty or index
NumberItems ==
    { ImportItem(StringField(q), NilValue, d, NoNumber) :
        q \in {"B"}, d \in DifficultyFields }
    \cup { ImportItem(StringField(q), NilValue, NoNumber, i) :
             q \in {"B", "C"}, i \in IndexFields \cup {NoNumber} }

ImportCall(data, groupID, getFails, createFails, relFails) ==
    [data |-> data, groupID |-> groupID, getFails |-> getFails,
     createFails |-> createFails, relFails |-> relFails]

\* calls of ImportQuestions: batches for the duplicate check, single items
\* with numbers into a group or none, and one item meeting store failures
ImportCalls ==
    { ImportCall(data, "", FALSE, {}, {}) : data \in SeqsUpTo(KeyItems, MaxBatch) }
    \cup { ImportCall(<<item>>, g, FALSE, {}, {}) :
             item \in NumberItems, g \in GroupIds \cup {""} }
    \cup { ImportCall(<<ImportItem(StringField("A"), NumberValue(1), NoNumber, NoNumber)>>,
                      g, gf, cf, rf) :
             g \in GroupIds, gf \in BOOLEAN, cf \in {{}, {1}}, rf \in {{}, {1}} }

CsvBatches == SeqsUpTo(CsvRows, 1)

QuestionArgs ==
    { QuestionArg(id, "A", o, Nil, Nil) : id \in {"", "q1"}, o \in RawOptions }
    \cup { QuestionArg(id, "D", "[]", d, i) :
             id \in {"", "q1", GhostId},
             d \in {Nil, Some(9)},
             i \in {Nil, Some(1), Some(IndexSentinel + 1)} }

UserQuestions ==
    { UserQuestion(id, "U", t, d, i) :
        id \in {"q1", "u1"}, t \in {0, 5},
        d \in {NoNumber, Float64Field(18)}, i \in {NoNumber, Float64Field(2)} }
    \cup { [kind |-> "other"] }

UserBatches == SeqsUpTo(UserQuestions, 1)

\* the database file NewDatabase opens: the table of an earlier version,
\* without the column [index], or the present one; the adjustment pass is
\* not running
InitCatalog(stores) ==
    /\ dbQuestions \in stores
    /\ hasIndex \in BOOLEAN
    /\ dbRows \in [StoredIds -> 
                     IF hasIndex THEN {PlainRow(0)} ELSE {OldRow(0)}]
    /\ dbRelations = {}
    /\ now = 0
    /\ made = 0
    /\ ret = NoRet
    /\ prior = Store
    /\ budget = MaxOps
    /\ past = [p \in Procs |-> <<>>]
    /\ dbSessions = {}
    /\ dbWrong = [q \in {} |-> 0]
    /\ pc = [p \in Procs |-> "idle"]
    /\ calls = [p \in Procs |-> 0]
    /\ sessionData = [p \in Procs |-> NoData]
    /\ session = [p \in Procs |-> NoSession]
    /\ questions = [p \in Procs |-> <<>>]
    /\ idx = [p \in Procs |-> 0]
    /\ difficultyAdjustment = [p \in Procs |-> 0]
    /\ currentQuestion = [p \in Procs |-> Nil]
    /\ individualAdjustment = [p \in Procs |-> 0]
    /\ result = [p \in Procs |-> "none"]
    /\ log = [p \in Procs |-> <<>>]
    /\ ops = [p \in Procs |-> <<>>]
    /\ before = [p \in Procs |-> dbQuestions]

\* difficulties within 1..5 or absent
RangedStores == [StoredIds -> {Nil, Some(1), Some(5)}]

InitStore == InitCatalog(RangedStores)

\* the application calls the store only after NewDatabase has migrated it
NextStore ==
    \/ \E sf, af \in BOOLEAN : Migrate(sf, af)
    \/ hasIndex /\ budget > 0
         /\ \E c \in ImportCalls :
               ImportQuestions(c.data, c.groupID, c.getFails, c.createFails,
                               c.relFails)
    \/ hasIndex /\ budget > 0
         /\ \E rs \in CsvBatches :
               ImportQuestionsFromCSV(rs, "", FALSE, {}, {})
    \/ hasIndex /\ budget > 0
         /\ \E question \in QuestionArgs, fails \in BOOLEAN :
               App_CreateQuestion(question, fails)
    \/ hasIndex /\ budget > 0
         /\ \E question \in QuestionArgs, fails \in BOOLEAN :
               App_UpdateQuestion(question, fails)
    \/ hasIndex /\ budget > 0
         /\ \E hasVersion \in BOOLEAN, qs \in UserBatches, cf \in {{}, {1}} :
               ImportUserData(hasVersion, qs, cf)
    \/ hasIndex /\ budget > 0
         /\ \E fails \in BOOLEAN :
              \E list \in IF fails THEN {<<>>} ELSE Listings(dbRows, DOMAIN dbRows) :
                 GetQuestions(list, fails)
    \/ hasIndex /\ budget > 0
         /\ \E g \in GroupIds, fails \in BOOLEAN :
              \E list \in IF fails THEN {<<>>} ELSE Listings(dbRows, GroupMembers(g)) :
                 GetQuestionsByGroup(g, list, fails)

SpecStore == InitStore /\ [][NextStore]_vars

\* the questions a restarted application adds between two migrations
MigrateQuestionArgs ==
    { QuestionArg("", "A", "[]", Nil, i) : i \in {Nil, Some(1)} }

InitMigrate == InitCatalog(InitialStores)

\* NewDatabase runs migrate at every start of the application
NextMigrate ==
    \/ \E sf, af \in BOOLEAN : Migrate(sf, af)
    \/ hasIndex /\ budget > 0
         /\ \E question \in MigrateQuestionArgs, fails \in BOOLEAN :
               App_CreateQuestion(question, fails)

SpecMigrate == InitMigrate /\ [][NextMigrate]_vars

----------------------------------------------------------------------------
(* Properties of the store operations                                      *)

\* C15 as stated: every stored difficulty is absent or within 1..5.
C15_DifficultyInRange ==
    \A q \in DOMAIN dbQuestions : dbQuestions[q] = Nil \/ InRange(dbQuestions[q])

Indexed(q) == dbRows[q].index # Nil

\* C18 as stated: a listing names each of its questions once, those with
\* an index before those without, the former by ascending index and the
\* latter by descending created_at.
C18_IndexedFirst ==
    (ret.op \in {"GetQuestions", "GetQuestionsByGroup"} /\ ~ret.err) =>
        LET l == ret.list
        IN  /\ { l[i] : i \in 1..Len(l) } =
                  IF ret.op = "GetQuestions" THEN DOMAIN dbRows
                  ELSE { q \in DOMAIN dbRows : \E g \in GroupIds : <<g, q>> \in dbRelations }
            /\ \A i, j \in 1..Len(l) : i < j =>
                  /\ l[i] # l[j]
                  /\ Indexed(l[j]) => Indexed(l[i])
                  /\ (Indexed(l[i]) /\ Indexed(l[j])) =>
                        dbRows[l[i]].index[1] <= dbRows[l[j]].index[1]
                  /\ (~Indexed(l[i]) /\ ~Indexed(l[j])) =>
                        dbRows[l[i]].created_at >= dbRows[l[j]].created_at

\* the rows of a table with the column keep what they held and the column
\* is NULL in each
KeptWithNullIndex(old, new) ==
    /\ DOMAIN new = DOMAIN old
    /\ \A q \in DOMAIN old :
          /\ new[q].question = old[q].question
          /\ new[q].options = old[q].options
          /\ new[q].created_at = old[q].created_at
          /\ new[q].index = Nil

\* C19: whatever the table was, addIndexColumnIfNotExists succeeds unless
\* the store itself fails, the column is there afterwards, a run on a table
\* that has the column changes nothing, a failed run changes nothing, and
\* the rows of a table without the column keep their data and get a NULL
\* index.
C19_MigrationIdempotent ==
    ret.op = "migrate" =>
        /\ ~ret.storeFailed => (~ret.err /\ hasIndex)
        /\ (prior.hasIndex \/ ret.err) => Store = prior
        /\ (~prior.hasIndex /\ ~ret.err) =>
              /\ hasIndex
              /\ KeptWithNullIndex(prior.rows, dbRows)
              /\ dbQuestions = prior.diffs /\ dbRelations = prior.rel
        /\ DOMAIN dbRows = DOMAIN prior.rows

\* the migration has just added the column to a table that had rows
C19_Witness ==
    /\ ret.op = "migrate" /\ ~ret.err
    /\ ~prior.hasIndex /\ hasIndex
    /\ DOMAIN prior.rows # {}
    /\ \A q \in DOMAIN dbRows : dbRows[q].index = Nil

\* the item's text and options are those of the row
MatchesRow(item, row) ==
    /\ item.question.s = row.question
    /\ UnmarshalOptions(row.options).ok
    /\ UnmarshalOptions(row.options).value = item.options

SamePair(a, b) == a.question.s = b.question.s /\ a.options = b.options

HasText(item) == item.question.t = "string" /\ item.question.s # ""

Count(seq, x) == Cardinality({ i \in 1..Len(seq) : seq[i] = x })

\* C20 as stated, for calls in which no store operation failed: an item
\* is created exactly when it has a text and its (text, options) pair is
\* neither that of a stored question nor that of an item created earlier in
\* the batch; Imported and Duplicates count the created and the duplicate
\* items; N distinct new items with a text give Success, Imported = N and
\* no errors.
C20_CreatedExactlyWhenNew ==
    (/\ ret.op = "ImportQuestions"
     /\ \A k \in 1..Len(ret.result.Errors) : ret.result.Errors[k] = "missing") =>
        LET data == ret.data
            new(i) == /\ HasText(data[i])
                      /\ \A q \in DOMAIN prior.rows : ~MatchesRow(data[i], prior.rows[q])
                      /\ \A j \in 1..(i - 1) :
                            ret.fates[j] = "created" => ~SamePair(data[j], data[i])
        IN  /\ \A i \in 1..Len(data) : (ret.fates[i] = "created") <=> new(i)
            /\ ret.result.Imported = Cardinality(DOMAIN dbRows \ DOMAIN prior.rows)
            /\ ret.result.Imported = Count(ret.fates, "created")
            /\ ret.result.Duplicates = Count(ret.fates, "duplicate")
            /\ (/\ \A i \in 1..Len(data) :
                      /\ HasText(data[i])
                      /\ \A q \in DOMAIN prior.rows : ~MatchesRow(data[i], prior.rows[q])
                      /\ \A j \in 1..(i - 1) : ~SamePair(data[j], data[i])) =>
                  /\ ret.result.Success
                  /\ ret.result.Imported = Len(data)
                  /\ ret.result.Errors = <<>>

-----------------------------------------------------------------------------
(* The direction of an adjustment, and repeated entries of one question    *)

\* the well-formed entries of es that name question q
EntriesOf(es, q) ==
    { i \in 1..Len(es) : WellFormed(es[i]) /\ es[i].questionId = q }

\* C22: in a session with totalQuestions > 0 the individual adjustment of a
\* valid entry is 0 or +1 when isCorrect is true and one of -3, -2, -1, 0
\* when it is false; so for a current difficulty in 1..5 a write never
\* lowers the difficulty for a correct entry nor raises it for an incorrect
\* one, and a pass leaves a question whose entries are all correct (all
\* incorrect) at or above (at or below) the difficulty it started from.
C22_AdjustmentFollowsAnswer ==
    \A p \in Procs : PassBegan(p) =>
        /\ pc[p] = "write" =>
               IF Entry(p).isCorrect
               THEN individualAdjustment[p] \in {0, 1}
               ELSE individualAdjustment[p] \in {-3, -2, -1, 0}
        /\ \A k \in Writes(p) :
               LET w == ops[p][k]
               IN  /\ w.adj \in (IF w.isCorrect THEN {0, 1} ELSE {-3, -2, -1, 0})
                   /\ InRange(w.old) =>
                          IF w.isCorrect THEN w.val[1] >= w.old[1]
                                         ELSE w.val[1] <= w.old[1]
        /\ \A q \in DOMAIN before[p] : InRange(before[p][q]) =>
               LET mine == EntriesOf(EntriesDone(p), q)
               IN  /\ (\A i \in mine : questions[p][i].isCorrect) =>
                           dbQuestions[q][1] >= before[p][q][1]
                   /\ (\A i \in mine : ~questions[p][i].isCorrect) =>
                           dbQuestions[q][1] <= before[p][q][1]

\* an incorrect entry of a session with accuracy above 80 (base +1) was
\* written with adjustment -1 and the question's difficulty went down
C22_Witness ==
    \E p \in Procs : /\ JustWrote(p) /\ Correct100(p) > 80 * Total(p)
                     /\ difficultyAdjustment[p] = 1
                     /\ ~LastOp(p).isCorrect /\ LastOp(p).adj = -1
                     /\ InRange(LastOp(p).old)
                     /\ dbQuestions[LastOp(p).q][1] < LastOp(p).old[1]

\* d after the adjustments as, applied one after the other, each clamped
RECURSIVE Accumulate(_, _)
Accumulate(d, as) ==
    IF as = <<>> THEN d
    ELSE Accumulate(NewDifficulty(d, Head(as)), Tail(as))

\* the rule adjustments of the well-formed entries of es naming q, in order
RECURSIVE AdjustmentsOf(_, _, _)
AdjustmentsOf(es, q, s) ==
    IF es = <<>> THEN <<>>
    ELSE IF WellFormed(Head(es)) /\ Head(es).questionId = q
         THEN <<RuleAdjustment(Head(es), s)>> \o AdjustmentsOf(Tail(es), q, s)
         ELSE AdjustmentsOf(Tail(es), q, s)

\* the operations of the call on question q, in order
OpsOn(p, q) == SelectSeq(AdjustmentOps(p), LAMBDA o : o.q = q)

\* C24: when a stored question is named by k valid entries of one session
\* and no store operation fails, the call makes k reads and k writes on it,
\* in sequence order; the first read returns the difficulty the question had
\* when the call began and every later read returns the value the previous
\* write stored, so the question ends at the k-fold clamped accumulation of
\* the entries' adjustments.
C24_RepeatedEntriesAccumulate ==
    \A p \in Procs : (PassFinished(p) /\ NoStoreFailure(p)) =>
        \A q \in DOMAIN before[p] :
            LET as == AdjustmentsOf(questions[p], q, session[p])
                os == OpsOn(p, q)
                k  == Len(as)
            IN  /\ Len(os) = 2 * k
                /\ \A j \in 1..k :
                       /\ os[2 * j - 1].op = "read" /\ os[2 * j].op = "write"
                       /\ os[2 * j - 1].val = IF j = 1 THEN before[p][q]
                                              ELSE os[2 * j - 2].val
                       /\ os[2 * j].adj = as[j]
                       /\ os[2 * j].val = NewDifficulty(os[2 * j - 1].val, as[j])
                /\ dbQuestions[q] = Accumulate(before[p][q], as)

\* two correct entries of one question in a session with accuracy above 80
\* took it from 3 to 5, where a single adjustment gives 4
C24_Witness ==
    \E p \in Procs :
        /\ PassFinished(p) /\ NoStoreFailure(p)
        /\ Len(questions[p]) = 2
        /\ WellFormed(questions[p][1]) /\ WellFormed(questions[p][2])
        /\ questions[p][1].questionId = "q1" /\ questions[p][2].questionId = "q1"
        /\ before[p]["q1"] = Some(3) /\ dbQuestions["q1"] = Some(5)
        /\ NewDifficulty(before[p]["q1"], RuleAdjustment(questions[p][1], session[p]))
               = Some(4)

-----------------------------------------------------------------------------
(* One call of SavePracticeSession whose store operations all succeed,     *)
(* started with or without a question already in the wrong-questions list  *)

\* a row a user put into wrong_questions and has reviewed since
ReviewedWrongQuestion == [id |-> "wrong_old", notes |-> "mine", timesReviewed |-> 2]

WrongLists == { [q \in {} |-> 0], [q \in {"q1"} |-> ReviewedWrongQuestion] }

\* the state before the first call: caller 1 may make n calls
InitPass(stores, wrongs, n) ==
    /\ dbQuestions \in stores
    /\ dbSessions = {}
    /\ dbWrong \in wrongs
    /\ pc = [p \in Procs |-> "idle"]
    /\ calls = [p \in Procs |-> IF p = 1 THEN n ELSE 0]
    /\ sessionData = [p \in Procs |-> NoData]
    /\ session = [p \in Procs |-> NoSession]
    /\ questions = [p \in Procs |-> <<>>]
    /\ idx = [p \in Procs |-> 0]
    /\ difficultyAdjustment = [p \in Procs |-> 0]
    /\ currentQuestion = [p \in Procs |-> Nil]
    /\ individualAdjustment = [p \in Procs |-> 0]
    /\ result = [p \in Procs |-> "none"]
    /\ log = [p \in Procs |-> <<>>]
    /\ ops = [p \in Procs |-> <<>>]
    /\ before = [p \in Procs |-> dbQuestions]
    /\ CatalogIdle

InitWrong == InitPass(InitialStores, WrongLists, 1)

\* GetQuestionByID finds no row for the id: sql.ErrNoRows, not a store failure
LoopReadNoRow(p) ==
    /\ pc[p] = "loop"
    /\ idx[p] <= Len(questions[p])
    /\ HasQuestionId(Entry(p)) /\ HasIsCorrect(Entry(p))
    /\ Entry(p).questionId \notin DOMAIN dbQuestions
    /\ LoopReadFail(p)

\* the steps of a call in which every store operation succeeds
NextWrong ==
    \/ \E p \in Procs : pc[p] \in {"idle", "done"} /\ calls[p] > 0
                          /\ \E sd \in WholeSessionDatas : SavePracticeSession(p, sd)
    \/ \E p \in Procs : UpdateNothing(p)
    \/ \E p \in Procs : UpdateParseError(p)
    \/ \E p \in Procs : UpdateBegin(p)
    \/ \E p \in Procs : LoopSkip(p)
    \/ \E p \in Procs : LoopReadNoRow(p)
    \/ \E p \in Procs : LoopRead(p)
    \/ \E p \in Procs : LoopWrite(p, TRUE)
    \/ \E p \in Procs : LoopDone(p)
    \/ \E p \in Procs : AddWrongPanic(p, {})
    \/ \E p \in Procs : AddWrongReturn(p, {})
    \/ \E p \in Procs : CreatePracticeSession(p, TRUE)

SpecWrong == InitWrong /\ [][NextWrong]_vars

\* ids of the entries of the submitted list that are objects with
\* isCorrect == false and a string questionId
AnsweredWrong(v) ==
    IF v.kind # "list" THEN {}
    ELSE { v.items[k].questionId :
             k \in { j \in 1..Len(v.items) :
                        /\ HasIsCorrect(v.items[j]) /\ ~v.items[j].isCorrect
                        /\ HasQuestionId(v.items[j]) } }

\* the step of caller p that runs AddWrongQuestionsFromSession to its return
WrongStepDone(p) == pc[p] = "wrong" /\ pc'[p] = "persist"

\* what a step does to wrong_questions
WrongListStep ==
    /\ \A p \in Procs : WrongStepDone(p) =>
          /\ DOMAIN dbWrong' =
                 DOMAIN dbWrong \cup AnsweredWrong(sessionData[p].questions)
          /\ \A q \in DOMAIN dbWrong : dbWrong'[q] = dbWrong[q]
          /\ \A q \in DOMAIN dbWrong' \ DOMAIN dbWrong :
                 dbWrong'[q] = NewWrongQuestion
    /\ (\A p \in Procs : pc[p] # "wrong") => dbWrong' = dbWrong

-----------------------------------------------------------------------------
(* Calls made one after the other by one caller, store failures included   *)

MaxCalls == 2       \* calls of SavePracticeSession the caller makes

\* a session of one question, q1 answered correctly
StrongSession ==
    [hdr |-> "ok", id |-> "s1", totalQuestions |-> 1, correctCount |-> 1,
     questions |-> [kind |-> "list", items |->
        <<[kind |-> "object", idType |-> "string", questionId |-> "q1",
           boolType |-> "bool", isCorrect |-> TRUE]>>]]

\* a session of one question, q2 answered wrongly
WeakSession ==
    [hdr |-> "ok", id |-> "s1", totalQuestions |-> 1, correctCount |-> 0,
     questions |-> [kind |-> "list", items |->
        <<[kind |-> "object", idType |-> "string", questionId |-> "q2",
           boolType |-> "bool", isCorrect |-> FALSE]>>]]

RepeatSessionDatas == {StrongSession, WeakSession}

InitRepeat == InitPass(InitialStores, {[q \in {} |-> 0]}, MaxCalls)

NextRepeat ==
    \/ \E p \in Procs : pc[p] \in {"idle", "done"} /\ calls[p] > 0
                          /\ \E sd \in RepeatSessionDatas : SavePracticeSession(p, sd)
    \/ \E p \in Procs : UpdateBegin(p)
    \/ \E p \in Procs : LoopReadFail(p)
    \/ \E p \in Procs : LoopRead(p)
    \/ \E p \in Procs, stored \in BOOLEAN : LoopWrite(p, stored)
    \/ \E p \in Procs : LoopDone(p)
    \/ \E p \in Procs : AddWrongReturn(p, {})
    \/ \E p \in Procs, stored \in BOOLEAN : CreatePracticeSession(p, stored)

SpecRepeat == InitRepeat /\ [][NextRepeat]_vars

\* the store after the successful difficulty writes among os, in order
RECURSIVE WritesApplied(_, _)
WritesApplied(store, os) ==
    IF os = <<>> THEN store
    ELSE WritesApplied(IF Head(os).op = "write" /\ Head(os).ok
                       THEN UpdateQuestionDifficulty(store, Head(os).q, Head(os).val)
                       ELSE store,
                       Tail(os))

\* the call ended with the insert of the session record failing
PersistFailed(os) ==
    Len(os) > 0 /\ os[Len(os)].op = "persist" /\ ~os[Len(os)].ok

\* no store operation of the finished call c failed before the insert,
\* except reads of ids without a row
CallClean(c) ==
    \A k \in 1..Len(c.ops) :
        \/ c.ops[k].ok
        \/ c.ops[k].op = "persist"
        \/ c.ops[k].op = "read" /\ c.ops[k].q \notin DOMAIN c.before

\* the well-formed entries of the submitted session sd
ValidEntriesOf(sd) == SelectSeq(sd.questions.items, WellFormed)

\* C23: when the insert of the session record fails the call returns the
\* error and the questions table still holds every difficulty the pass
\* wrote; a following call with the same session starts from those values,
\* so (store operations of both passes succeeding) the table ends at the
\* pass applied twice to what the first call started from.
C23_FailedSaveKeepsWrites ==
    \A p \in Procs :
        /\ (pc[p] = "done" /\ PersistFailed(ops[p])) =>
              /\ result[p] = "error"
              /\ dbQuestions = WritesApplied(before[p], ops[p])
        /\ (/\ Len(past[p]) > 0
            /\ PersistFailed(past[p][Len(past[p])].ops)
            /\ past[p][Len(past[p])].sessionData = sessionData[p]
            /\ CallClean(past[p][Len(past[p])])
            /\ PassFinished(p) /\ NoStoreFailure(p)) =>
              LET first == past[p][Len(past[p])]
                  es    == ValidEntriesOf(sessionData[p])
                  once  == PassResult(first.before, es, session[p])
              IN  /\ before[p] = once
                  /\ dbQuestions = PassResult(once, es, session[p])

\* the strong session was saved twice, the first insert failed: q1 went
\* from 3 to 4 in the first call and from 4 to 5 in the second
C23_Witness ==
    /\ Len(past[1]) = 1
    /\ past[1][1].sessionData = StrongSession /\ sessionData[1] = StrongSession
    /\ past[1][1].result = "error" /\ PersistFailed(past[1][1].ops)
    /\ CallClean(past[1][1])
    /\ PassFinished(1) /\ NoStoreFailure(1)
    /\ past[1][1].before["q1"] = Some(3)
    /\ before[1]["q1"] = Some(4)
    /\ dbQuestions["q1"] = Some(5)

\* the difficulties when the first call began
StartStore(p) == IF past[p] = <<>> THEN before[p] ELSE past[p][1].before

\* the store operations of all calls of p so far, in order
RECURSIVE OpsOfCalls(_)
OpsOfCalls(cs) == IF cs = <<>> THEN <<>> ELSE Head(cs).ops \o OpsOfCalls(Tail(cs))

AllOps(p) == OpsOfCalls(past[p]) \o ops[p]

\* some difficulty write for question q succeeded
WrittenTo(os, q) ==
    \E k \in 1..Len(os) : os[k].op = "write" /\ os[k].ok /\ os[k].q = q

\* C25: over any sequence of passes of one caller, failed reads and writes
\* included, every difficulty write carries a value (never NULL) and the
\* value is within 1..5 whenever the question had none; a question that had a difficulty at
\* the start still has one; a question that had none has one exactly when a
\* write for it has succeeded, and from then on it is within 1..5.
C25_NeverWritesAbsent ==
    \A p \in Procs :
        LET os == AllOps(p)
        IN  /\ \A k \in 1..Len(os) : os[k].op = "write" =>
                   /\ os[k].val # Nil
                   /\ os[k].old = Nil => InRange(os[k].val)
            /\ (\A r \in Procs \ {p} : pc[r] = "idle") =>
                 \A q \in DOMAIN dbQuestions :
                    /\ StartStore(p)[q] # Nil => dbQuestions[q] # Nil
                    /\ StartStore(p)[q] = Nil =>
                          /\ dbQuestions[q] # Nil <=> WrittenTo(os, q)
                          /\ dbQuestions[q] # Nil => InRange(dbQuestions[q])

\* q2 had no difficulty, the first call wrote one, and the second call has
\* finished its pass with the question still scored
C25_Witness ==
    /\ Len(past[1]) = 1
    /\ StartStore(1)["q2"] = Nil
    /\ WrittenTo(past[1][1].ops, "q2")
    /\ ~WrittenTo(ops[1], "q2")
    /\ PassFinished(1)
    /\ InRange(dbQuestions["q2"])

-----------------------------------------------------------------------------
(* Strong sessions saved one after the other, store operations succeeding  *)

MaxPasses == 5      \* strong sessions saved in a row

\* the strong session with a second entry: q1 again, or q2 answered wrongly
StrongSessionWith(e) ==
    [StrongSession EXCEPT !.questions.items = Append(@, e)]

StrongSessionDatas ==
    { StrongSession,
      StrongSessionWith([kind |-> "object", idType |-> "string", questionId |-> "q1",
                         boolType |-> "bool", isCorrect |-> TRUE]),
      StrongSessionWith([kind |-> "object", idType |-> "string", questionId |-> "q2",
                         boolType |-> "bool", isCorrect |-> FALSE]) }

InitStrong == InitPass(InitialStores, {[q \in {} |-> 0]}, MaxPasses)

\* the insert of the session record may fail (the same id again); the reads
\* and writes of the pass succeed
NextStrong ==
    \/ \E p \in Procs : pc[p] \in {"idle", "done"} /\ calls[p] > 0
                          /\ \E sd \in StrongSessionDatas : SavePracticeSession(p, sd)
    \/ \E p \in Procs : UpdateBegin(p)
    \/ \E p \in Procs : LoopRead(p)
    \/ \E p \in Procs : LoopWrite(p, TRUE)
    \/ \E p \in Procs : LoopDone(p)
    \/ \E p \in Procs : AddWrongReturn(p, {})
    \/ \E p \in Procs, stored \in BOOLEAN : CreatePracticeSession(p, stored)

SpecStrong == InitStrong /\ [][NextStrong]_vars

\* the calls of p up to and including the current one
CallsSoFar(p) == Append(past[p], FinishedCall(p))

\* call c ran a pass with accuracy above 80 whose reads and writes succeeded
StrongPass(c) ==
    /\ c.session.TotalQuestions > 0
    /\ RateGT(AccuracyRate(c.session), 80)
    /\ CallClean(c)

\* q is named by a valid entry of sd, and every valid entry naming it is correct
AnsweredCorrectly(sd, q) ==
    LET es == sd.questions.items
    IN  /\ EntriesOf(es, q) # {}
        /\ \A i \in EntriesOf(es, q) : es[i].isCorrect

\* q is named by exactly one valid entry of sd, a correct one
AnsweredCorrectlyOnce(sd, q) ==
    AnsweredCorrectly(sd, q) /\ Cardinality(EntriesOf(sd.questions.items, q)) = 1

\* C26 as stated: after n consecutive passes with accuracy > 80 in which the
\* question is a valid correct entry and the store operations succeed, a
\* difficulty d in 1..5 has become min(5, d + n).
C26_StrongPassesAddOneEach ==
    \A p \in Procs : \A q \in StoredIds : PassFinished(p) =>
        LET cs == CallsSoFar(p)
            d  == cs[1].before[q]
        IN  (/\ InRange(d)
             /\ \A k \in 1..Len(cs) :
                   StrongPass(cs[k]) /\ AnsweredCorrectly(cs[k].sessionData, q)) =>
                dbQuestions[q] = Some(Min(5, d[1] + Len(cs)))

\* C26: after n consecutive passes with accuracy > 80 in each of which the
\* question is named by exactly one valid entry, a correct one, and the
\* store operations succeed, a difficulty d in 1..5 has become
\* min(5, d + n); so it is 5 after at most 4 such passes and stays 5.  With
\* the question named by correct entries any number of times it is still 5
\* after at most 4 passes and stays 5.
C26_StrongPassesConverge ==
    \A p \in Procs : \A q \in StoredIds : PassFinished(p) =>
        LET cs == CallsSoFar(p)
            d  == cs[1].before[q]
        IN  /\ (/\ InRange(d)
                /\ \A k \in 1..Len(cs) :
                      /\ StrongPass(cs[k])
                      /\ AnsweredCorrectlyOnce(cs[k].sessionData, q)) =>
                   /\ dbQuestions[q] = Some(Min(5, d[1] + Len(cs)))
                   /\ Len(cs) >= 4 => dbQuestions[q] = Some(5)
            /\ (/\ InRange(d)
                /\ \A k \in 1..Len(cs) :
                      /\ StrongPass(cs[k])
                      /\ AnsweredCorrectly(cs[k].sessionData, q)) =>
                   /\ dbQuestions[q][1] >= Min(5, d[1] + Len(cs))
                   /\ dbQuestions[q][1] <= 5
                   /\ Len(cs) >= 4 => dbQuestions[q] = Some(5)

\* q1 started at 1, was answered correctly once in each of five strong
\* sessions, stood at 5 after the fourth and is 5 after the fifth
C26_Witness ==
    /\ Len(past[1]) = 4 /\ PassFinished(1)
    /\ \A k \in 1..5 : /\ StrongPass(CallsSoFar(1)[k])
                       /\ AnsweredCorrectlyOnce(CallsSoFar(1)[k].sessionData, "q1")
    /\ past[1][1].before["q1"] = Some(1)
    /\ past[1][4].before["q1"] = Some(4)
    /\ before[1]["q1"] = Some(5)
    /\ dbQuestions["q1"] = Some(5)

-----------------------------------------------------------------------------
(* CSV export and import of one line.  A string is the sequence of its      *)
(* characters.                                                             *)

MaxFieldLen == 3    \* longest field

MaxFields == 2      \* most fields on a line

\* a letter, the comma, the double quote and the blank
Chars == {"a", ",", "\"", " "}

\* field values: strings without a newline
Fields == UNION { [1..n -> Chars] : n \in 0..MaxFieldLen }

FieldLists == UNION { [1..n -> Fields] : n \in 1..MaxFields }

\* strings.Contains(field, c) for a one-character c
Contains(field, c) == \E i \in 1..Len(field) : field[i] = c

\* strings.ReplaceAll(field, "\"", "\"\"")
RECURSIVE DoubleQuotes(_)
DoubleQuotes(field) ==
    IF field = <<>> THEN <<>>
    ELSE (IF Head(field) = "\"" THEN <<"\"", "\"">> ELSE <<Head(field)>>)
         \o DoubleQuotes(Tail(field))

\* a field with a comma, a newline or a quote is wrapped in quotes, its
\* quotes doubled; any other field is written as it is
escapeCsvField(field) ==
    IF Contains(field, ",") \/ Contains(field, "\n") \/ Contains(field, "\"")
    THEN <<"\"">> \o DoubleQuotes(field) \o <<"\"">>
    ELSE field

\* fmt.Sprintf("%s,%s,...", ...): the escaped fields with commas between
RECURSIVE ExportLine(_)
ExportLine(fields) ==
    IF Len(fields) = 1 THEN escapeCsvField(fields[1])
    ELSE escapeCsvField(Head(fields)) \o <<",">> \o ExportLine(Tail(fields))

\* the body of `for i, char := range line` from position i on.  The i++ in
\* the escaped-quote branch changes the loop variable of that iteration
\* only: range takes the next character all the same, so the second quote
\* of a doubled pair is looked at again.
RECURSIVE parseFrom(_, _, _, _, _)
parseFrom(line, i, fields, current, inQuotes) ==
    IF i > Len(line) THEN Append(fields, current)
    ELSE IF line[i] = "\""
         THEN IF inQuotes /\ i + 1 <= Len(line) /\ line[i + 1] = "\""
              THEN parseFrom(line, i + 1, fields, Append(current, "\""), inQuotes)
              ELSE parseFrom(line, i + 1, fields, current, ~inQuotes)
    ELSE IF line[i] = ","
         THEN IF inQuotes
              THEN parseFrom(line, i + 1, fields, Append(current, ","), inQuotes)
              ELSE parseFrom(line, i + 1, Append(fields, current), <<>>, inQuotes)
    ELSE parseFrom(line, i + 1, fields, Append(current, line[i]), inQuotes)

parseCSVLine(line) == parseFrom(line, 1, <<>>, <<>>, FALSE)

\* strings.TrimSpace
RECURSIVE TrimSpace(_)
TrimSpace(s) ==
    IF s = <<>> THEN s
    ELSE IF Head(s) = " " THEN TrimSpace(Tail(s))
    ELSE IF s[Len(s)] = " " THEN TrimSpace(SubSeq(s, 1, Len(s) - 1))
    ELSE s

\* a data row as ImportQuestionsFromCSV reads it: trimmed, skipped when
\* empty, else split by parseCSVLine
ImportLine(line) ==
    IF TrimSpace(line) = <<>> THEN <<>> ELSE parseCSVLine(TrimSpace(line))

\* ExportGroupAsCSV writes the row of a question with the text fields
ExportGroupAsCSV(fields) ==
    /\ ret.op = "none"
    /\ ret' = [op |-> "ExportGroupAsCSV", fields |-> fields,
               line |-> ExportLine(fields)]
    /\ UNCHANGED <<dbQuestions, dbRows, hasIndex, dbRelations, now, made, prior,
                   budget, passVars>>

\* the exported line is read back
ParseExportedLine ==
    /\ ret.op = "ExportGroupAsCSV"
    /\ ret' = [op |-> "parseCSVLine", fields |-> ret.fields, line |-> ret.line,
               values |-> parseCSVLine(ret.line),
               imported |-> ImportLine(ret.line)]
    /\ UNCHANGED <<dbQuestions, dbRows, hasIndex, dbRelations, now, made, prior,
                   budget, passVars>>

InitCsv == InitPass({[q \in StoredIds |-> Nil]}, {[q \in {} |-> 0]}, 0)

NextCsv ==
    \/ \E fields \in FieldLists : ExportGroupAsCSV(fields)
    \/ ParseExportedLine

SpecCsv == InitCsv /\ [][NextCsv]_vars

\* C27: parseCSVLine applied to the comma-joined escapeCsvField encodings of
\* a list of fields without newlines returns the list.
C27_CsvLineRoundTrip ==
    ret.op = "parseCSVLine" => ret.values = ret.fields

====
